---- MODULE Spec2Model ----
(***************************************************************************)
(* Model of vlog_travel_finder: the versioned SQLite schema upgrade        *)
(* (vlog_site/db.py) and the session based access control of the public    *)
(* and admin areas (vlog_site/access_control.py, blueprints/*.py).         *)
(*                                                                         *)
(* Each SQL statement of the upgrade is modelled by its SQL meaning.  The  *)
(* transaction boundaries are those of the sqlite3 driver the engine uses: *)
(* DDL and PRAGMA statements run in autocommit unless a transaction is     *)
(* open, INSERT/UPDATE open a transaction implicitly, executescript()      *)
(* commits a pending transaction first, and the engine.begin() block       *)
(* commits on normal exit and rolls back otherwise.                        *)
(***************************************************************************)
EXTENDS Integers, Sequences, FiniteSets, TLC

VARIABLES
    disk,        \* the committed content of the SQLite store
    db,          \* the content as seen through the upgrade's connection
    inTxn,       \* TRUE while the connection has an open transaction
    pc,          \* position of upgrade_sqlite_schema
    version,     \* its local variable `version`
    applied,     \* steps completed by the current run, in order
    startVersion,\* value of `version` when the while loop was entered
    before,      \* committed content when the current run started
    prevDone,    \* TRUE when the run before the current one returned normally
    runs,        \* number of runs started
    crashedIn    \* pc at which the last run was interrupted

upgradeVars == <<disk, db, inTxn, pc, version, applied, startVersion, before,
                 prevDone, runs, crashedIn>>

VARIABLES
    session,     \* the browser's signed session cookie: user_id, anonymous_preview
    users,       \* user table: id -> email, password, role
    rules,       \* access_rule table: feature -> anonymous_access
    categories,  \* category table: id -> name
    places,      \* place table: id -> name, category_id
    posts,       \* blog_post table: id -> title, slug, status, publish_at
    settings,    \* site_setting table: key -> value
    messages,    \* contact_message table: id -> email, answered_at
    uploads,     \* file names in the instance uploads directory
    idseq,       \* sqlite_sequence: table -> last id handed out
    page_view,   \* page_view table: whether it exists, and its number of rows
    inflight,    \* worker -> the check-then-insert request it is serving
    _CACHE,      \* youtube_service._CACHE: channel id -> cached_at, value
    clock,       \* time.time() of the serving process, in seconds
    last         \* the last request and how it was answered

dataVars == <<rules, categories, places, posts, settings, messages, uploads>>

cacheVars == <<_CACHE, clock>>

webVars == <<session, users, dataVars, idseq, page_view, inflight, cacheVars, last>>

vars == <<upgradeVars, webVars>>

Null == "NULL"

\* Number of process starts explored.
MaxRuns == 2

\* user rows ever inserted
MaxUsers == 2

\* category, place, blog_post and contact_message rows ever inserted
MaxRows == 1

\* length of the return-to URLs tried
MaxUrlLen == 3

\* the latest date and time
MaxTime == 3

\* posts of the blogs whose public views are tried
MaxPosts == 2

\* page views logged
MaxViews == 1

\* the latest reading of the process clock, in seconds
MaxClock == 602

----------------------------------------------------------------------------
\* Schema vocabulary

LegacyTables == {"admin_user", "category", "place"}

VenueCols == {"venue_website_url", "venue_youtube_url", "venue_tiktok_url",
              "venue_instagram_url", "venue_facebook_url",
              "vlog_youtube_url", "vlog_tiktok_url", "vlog_instagram_url"}

BlogTables == {"blog_post", "contact_message"}

AuthTables == {"user", "access_rule"}

\* the tables of the ORM classes, which the request handlers query
ModelTables ==
    {"place", "category", "admin_user", "site_setting", "blog_post",
     "contact_message", "user", "access_rule", "page_view"}

ContactSeedKeys == {"contact_email", "contact_phone"}

SmtpSeedKeys == {"featured_youtube_url", "smtp_host", "smtp_port",
                 "smtp_username", "smtp_password", "smtp_from", "smtp_to"}

DefaultFeatures == {"home", "places", "blog", "contact", "about"}

latest_version == 5

----------------------------------------------------------------------------
\* SQL helpers

\* COALESCE(a, b)
Coalesce(a, b) == IF a # Null THEN a ELSE b

\* INSERT OR IGNORE INTO site_setting (key, value) VALUES (k, NULL), for k in keys
InsertOrIgnoreSettings(s, keys) ==
    [s EXCEPT !.site_setting =
        [k \in (DOMAIN @) \cup keys |-> IF k \in DOMAIN @ THEN @[k] ELSE Null]]

InsertOrIgnoreAdminsAsMembers(s, admin_rows) ==
    [s EXCEPT !.user =
        [e \in (DOMAIN @) \cup (DOMAIN admin_rows) |->
            IF e \in DOMAIN @ THEN @[e]
            ELSE [password_hash |-> admin_rows[e], role |-> "member"]]]

\* INSERT OR IGNORE INTO user (email, password_hash, role, ...) for every admin row
InsertOrIgnoreAdmins(s, admin_rows) ==
    [s EXCEPT !.user =
        [e \in (DOMAIN @) \cup (DOMAIN admin_rows) |->
            IF e \in DOMAIN @ THEN @[e]
            ELSE [password_hash |-> admin_rows[e], role |-> "admin"]]]

\* INSERT OR IGNORE INTO access_rule (feature, anonymous_access) VALUES (f, 1)
InsertOrIgnoreRules(s, features) ==
    [s EXCEPT !.access_rule =
        [f \in (DOMAIN @) \cup features |-> IF f \in DOMAIN @ THEN @[f] ELSE TRUE]]

\* CREATE TABLE IF NOT EXISTS for each table of T
CreateTables(s, T) == [s EXCEPT !.tables = @ \cup T]

_get_user_version(s) == s.user_version

_set_user_version(s, v) == [s EXCEPT !.user_version = v]

----------------------------------------------------------------------------
\* upgrade_sqlite_schema: version inference and the five steps

InferAlways(v) == TRUE

\* `if version == 0:`
NeedsInference(v) == v = 0

InferVersionLegacyFirst(tables) ==
    IF LegacyTables \subseteq tables THEN 1
    ELSE IF "site_setting" \in tables THEN 2
    ELSE 0

InferVersion(tables) ==
    IF "site_setting" \in tables THEN 2
    ELSE IF LegacyTables \subseteq tables THEN 1
    ELSE 0

VersionAfterSkip(k) == IF k = 3 THEN 5 ELSE k + 1

\* the literal assigned to `version` at the end of step k
VersionAfter(k) ==
    CASE k = 0 -> 1
      [] k = 1 -> 2
      [] k = 2 -> 3
      [] k = 3 -> 4
      [] k = 4 -> 5

\* version 0: the three CREATE TABLE IF NOT EXISTS statements
Step0Sql(s) == CreateTables(s, LegacyTables)

\* version 1: CREATE TABLE IF NOT EXISTS site_setting
Step1Sql(s) == CreateTables(s, {"site_setting"})

\* version 1: the two seed rows
Step1Seed(s) == InsertOrIgnoreSettings(s, ContactSeedKeys)

\* version 2: _add_col for each of the eight columns
Step2AddCols(s) == [s EXCEPT !.place_cols = @ \cup VenueCols]

BackfillRowOverwrite(r) ==
    [r EXCEPT !.venue_website_url = Coalesce(r.website_url, @),
              !.venue_youtube_url = Coalesce(r.youtube_url, @),
              !.venue_tiktok_url  = Coalesce(r.tiktok_url, @)]

\* version 2: the SET clause of the UPDATE, for one row
BackfillRow(r) ==
    [r EXCEPT !.venue_website_url = Coalesce(@, r.website_url),
              !.venue_youtube_url = Coalesce(@, r.youtube_url),
              !.venue_tiktok_url  = Coalesce(@, r.tiktok_url)]

\* version 2: UPDATE place SET ... (no WHERE clause: every row)
Step2Backfill(s) == [s EXCEPT !.place = [i \in DOMAIN @ |-> BackfillRow(@[i])]]

\* version 3: the executescript creating blog_post and contact_message
Step3Sql(s) == CreateTables(s, BlogTables)

\* version 3: the seven seed rows
Step3Seed(s) == InsertOrIgnoreSettings(s, SmtpSeedKeys)

\* version 4: the executescript creating user and access_rule
Step4Sql(s) == CreateTables(s, AuthTables)

\* version 4: SELECT ... FROM admin_user, [] when the statement fails
AdminRows(s) == IF "admin_user" \in s.tables THEN s.admin_user ELSE <<>>

\* version 4: migration of the admin rows and the default rules
Step4Seed(s) ==
    InsertOrIgnoreRules(InsertOrIgnoreAdmins(s, AdminRows(s)), DefaultFeatures)

----------------------------------------------------------------------------
\* Stores the upgrade may be started on

EmptyFn == <<>>

PlaceRow(w, y, t, vw, vy, vt) ==
    [website_url |-> w, youtube_url |-> y, tiktok_url |-> t,
     venue_website_url |-> vw, venue_youtube_url |-> vy, venue_tiktok_url |-> vt]

\* rows of a place table that has the venue columns
PlaceRowsWithCols ==
    { PlaceRow(w, y, "t-old", vw, vy, Null) :
        w \in {Null, "w-old"}, y \in {Null, "y-old"},
        vw \in {Null, "w-new"}, vy \in {Null} }
    \cup { PlaceRow("w-old", Null, Null, Null, "y-new", "t-new") }

\* rows of a place table without them
PlaceRowsLegacy ==
    { PlaceRow(w, y, "t-old", Null, Null, Null) :
        w \in {Null, "w-old"}, y \in {Null, "y-old"} }

PlaceContents(hasCols) ==
    {EmptyFn} \cup { (1 :> r) : r \in IF hasCols THEN PlaceRowsWithCols ELSE PlaceRowsLegacy }

SettingContents ==
    { EmptyFn,
      ("contact_email" :> "owner@example.com"),
      ("contact_email" :> Null) @@ ("contact_phone" :> Null) @@ ("smtp_host" :> "mail.example.com") }

AdminContents == { EmptyFn, ("root" :> "hash-a") }

UserContents ==
    { EmptyFn,
      ("root" :> [password_hash |-> "hash-m", role |-> "member"]),
      ("ann" :> [password_hash |-> "hash-n", role |-> "member"]) }

RuleContents == { EmptyFn, ("blog" :> FALSE), [f \in DefaultFeatures |-> TRUE] }

\* tables present once the steps below `level` have run on an empty store
TablesAt(level) ==
    (IF level >= 1 THEN LegacyTables ELSE {})
    \cup (IF level >= 2 THEN {"site_setting"} ELSE {})
    \cup (IF level >= 4 THEN BlogTables ELSE {})
    \cup (IF level >= 5 THEN AuthTables ELSE {})

\* table sets of stores that predate versioning; the v2->v3 step needs place
UnversionedTableSets ==
    { T \in SUBSET (LegacyTables \cup {"site_setting"}) :
        "site_setting" \in T => "place" \in T }

Store(v, T, cols, place, st, ad, us, ru) ==
    [user_version |-> v, tables |-> T, place_cols |-> cols, place |-> place,
     site_setting |-> st, admin_user |-> ad, user |-> us,
     access_rule |-> ru]

StoresWith(v, T, hasCols) ==
    { Store(v, T, IF hasCols THEN VenueCols ELSE {}, p, st, ad, us, ru) :
        p  \in IF "place" \in T THEN PlaceContents(hasCols) ELSE {EmptyFn},
        st \in IF "site_setting" \in T THEN SettingContents ELSE {EmptyFn},
        ad \in IF "admin_user" \in T THEN AdminContents ELSE {EmptyFn},
        us \in IF "user" \in T THEN UserContents ELSE {EmptyFn},
        ru \in IF "access_rule" \in T THEN RuleContents ELSE {EmptyFn} }

\* stores whose content is that of schema level `level` and whose stored
\* version is v <= level (v < level: the steps v..level-1 are being rerun)
VersionedStores ==
    UNION { UNION { StoresWith(v, TablesAt(level), level >= 3) :
                      level \in v..latest_version } : v \in 1..latest_version }

UnversionedStores ==
    UNION { StoresWith(0, T, FALSE) : T \in UnversionedTableSets }

KnownStores == VersionedStores \cup UnversionedStores

\* stores whose version this program never wrote
UnknownStores ==
    UNION { StoresWith(v, TablesAt(latest_version), TRUE) : v \in {-1, 6, 7} }

----------------------------------------------------------------------------
\* The sqlite3 connection: where a statement's effect lands

\* DDL or PRAGMA: immediately durable unless a transaction is open
Autocommit(s) ==
    /\ db' = s
    /\ disk' = IF inTxn THEN disk ELSE s
    /\ UNCHANGED inTxn

\* INSERT / UPDATE: opens a transaction when none is open
InTransaction(s) ==
    /\ db' = s
    /\ inTxn' = TRUE
    /\ UNCHANGED disk

\* executescript: COMMIT, then the script in autocommit
ExecuteScript(s) ==
    /\ db' = s
    /\ disk' = s
    /\ inTxn' = FALSE

----------------------------------------------------------------------------
\* Actions of one run of upgrade_sqlite_schema

NoUser == 0

\* place.category_id NULL
NoCategory == 0

\* blog_post.publish_at NULL; the dates and times are 1..MaxTime
NoDate == 0

\* datetime.now() while serving: the clock of the rows written
Today == 2

\* the identity keys of the template context when no template was rendered
NoContext ==
    [current_user |-> NoUser, is_authenticated |-> FALSE, is_admin |-> FALSE,
     is_anonymous_preview |-> FALSE]

NoRequest ==
    [endpoint |-> "none", query |-> "", admin |-> FALSE, preview |-> FALSE,
     user_id |-> NoUser, rule |-> "none", outcome |-> "none", ran |-> FALSE,
     result |-> "none", location |-> "none", next |-> <<"none", "">>,
     given |-> <<>>, target |-> <<>>, rendered |-> FALSE, context |-> NoContext,
     now |-> NoDate, shown |-> {},
     path |-> <<>>, method |-> "none", handled |-> "none", logging |-> "none",
     flash |-> "none", post_id |-> 0, outbound |-> "none",
     prior |-> Null, again |-> FALSE, recipient |-> Null, channel |-> Null]

\* the workers serving requests at the same time
Workers == {1, 2}

\* a worker between requests
Idle == [kind |-> "none", title |-> <<>>, word |-> "", pc |-> "idle", result |-> "none"]

\* no request has been served: the application is not up yet
WebIdle ==
    /\ session = [user_id |-> NoUser, anonymous_preview |-> FALSE]
    /\ users = <<>>
    /\ rules = <<>>
    /\ categories = <<>>
    /\ places = <<>>
    /\ posts = <<>>
    /\ settings = <<>>
    /\ messages = <<>>
    /\ uploads = {}
    /\ idseq = <<>>
    /\ page_view = [exists |-> FALSE, rows |-> 0]
    /\ inflight = [r \in Workers |-> Idle]
    /\ _CACHE = <<>>
    /\ clock = 0
    /\ last = NoRequest

InitUpgradeOn(stores) ==
    /\ disk \in stores
    /\ db = disk
    /\ inTxn = FALSE
    /\ pc = "idle"
    /\ version = 0
    /\ applied = <<>>
    /\ startVersion = 0
    /\ before = disk
    /\ prevDone = FALSE
    /\ runs = 0
    /\ crashedIn = "none"
    /\ WebIdle

\* init_db -> upgrade_sqlite_schema up to the `while`
Start ==
    /\ pc \in {"idle", "done", "crashed", "error"}
    /\ runs < MaxRuns
    /\ runs' = runs + 1
    /\ prevDone' = (pc = "done")
    /\ before' = disk
    /\ LET v0 == _get_user_version(disk)
           v  == IF NeedsInference(v0) THEN InferVersion(disk.tables) ELSE v0
           s  == IF NeedsInference(v0) THEN _set_user_version(disk, v) ELSE disk
       IN /\ version' = v
          /\ startVersion' = v
          /\ db' = s
          /\ disk' = s
    /\ inTxn' = FALSE
    /\ applied' = <<>>
    /\ pc' = "loop"
    /\ crashedIn' = "none"
    /\ UNCHANGED webVars

StepDone(k) ==
    /\ version' = VersionAfter(k)
    /\ applied' = Append(applied, k)
    /\ pc' = "loop"
    /\ UNCHANGED <<startVersion, before, prevDone, runs, crashedIn, webVars>>

StepMid ==
    /\ pc' = "mid"
    /\ UNCHANGED <<version, applied, startVersion, before, prevDone, runs, crashedIn, webVars>>

AtStep(k) == pc = "loop" /\ version < latest_version /\ version = k

InStep(k) == pc = "mid" /\ version = k

Step0 ==
    /\ AtStep(0)
    /\ Autocommit(_set_user_version(Step0Sql(db), VersionAfter(0)))
    /\ StepDone(0)

Step1Create ==
    /\ AtStep(1)
    /\ Autocommit(Step1Sql(db))
    /\ StepMid

Step1Insert ==
    /\ InStep(1)
    /\ InTransaction(_set_user_version(Step1Seed(db), VersionAfter(1)))
    /\ StepDone(1)

Step2Alter ==
    /\ AtStep(2)
    /\ Autocommit(Step2AddCols(db))
    /\ StepMid

Step2Update ==
    /\ InStep(2)
    /\ InTransaction(_set_user_version(Step2Backfill(db), VersionAfter(2)))
    /\ StepDone(2)

Step3Script ==
    /\ AtStep(3)
    /\ ExecuteScript(Step3Sql(db))
    /\ StepMid

Step3Insert ==
    /\ InStep(3)
    /\ InTransaction(_set_user_version(Step3Seed(db), VersionAfter(3)))
    /\ StepDone(3)

Step4Script ==
    /\ AtStep(4)
    /\ ExecuteScript(Step4Sql(db))
    /\ StepMid

Step4Insert ==
    /\ InStep(4)
    /\ InTransaction(_set_user_version(Step4Seed(db), VersionAfter(4)))
    /\ StepDone(4)

\* `raise RuntimeError(...)`: the block rolls back
Unsupported ==
    /\ pc = "loop"
    /\ version < latest_version
    /\ version \notin 0..4
    /\ pc' = "error"
    /\ db' = disk
    /\ inTxn' = FALSE
    /\ UNCHANGED <<disk, version, applied, startVersion, before, prevDone, runs, crashedIn, webVars>>

\* the while condition is false: the block exits and commits
Finish ==
    /\ pc = "loop"
    /\ ~(version < latest_version)
    /\ disk' = db
    /\ inTxn' = FALSE
    /\ pc' = "done"
    /\ UNCHANGED <<db, version, applied, startVersion, before, prevDone, runs, crashedIn, webVars>>

\* the process dies inside the block: the open transaction is lost
Crash ==
    /\ pc \in {"loop", "mid"}
    /\ version < latest_version
    /\ crashedIn' = pc
    /\ pc' = "crashed"
    /\ db' = disk
    /\ inTxn' = FALSE
    /\ UNCHANGED <<disk, version, applied, startVersion, before, prevDone, runs, webVars>>

UpgradeSteps ==
    \/ Step0
    \/ Step1Create
    \/ Step1Insert
    \/ Step2Alter
    \/ Step2Update
    \/ Step3Script
    \/ Step3Insert
    \/ Step4Script
    \/ Step4Insert
    \/ Finish

InitUpgrade == InitUpgradeOn(KnownStores)

NextUpgrade == Start \/ UpgradeSteps \/ Crash

SpecUpgrade == InitUpgrade /\ [][NextUpgrade]_vars

NextUpgradeRun == Start \/ UpgradeSteps

SpecUpgradeRun == InitUpgrade /\ [][NextUpgradeRun]_vars /\ WF_vars(NextUpgradeRun)

InitAnyVersion == InitUpgradeOn(KnownStores \cup UnknownStores)

NextAnyVersion == Start \/ UpgradeSteps \/ Unsupported

SpecAnyVersion == InitAnyVersion /\ [][NextAnyVersion]_vars

----------------------------------------------------------------------------
\* Text: a string is a sequence of one-character strings

UpperChars == <<"A","B","C","D","E","F","G","H","I","J","K","L","M",
                "N","O","P","Q","R","S","T","U","V","W","X","Y","Z">>

LowerChars == <<"a","b","c","d","e","f","g","h","i","j","k","l","m",
                "n","o","p","q","r","s","t","u","v","w","x","y","z">>

Digits == {"0","1","2","3","4","5","6","7","8","9"}

\* str.lower() on one character
Lower(c) ==
    IF \E i \in 1..26 : UpperChars[i] = c
    THEN LowerChars[CHOOSE i \in 1..26 : UpperChars[i] = c]
    ELSE c

\* str.isalnum() on one character
IsAlnum(c) == (\E i \in 1..26 : c \in {UpperChars[i], LowerChars[i]}) \/ c \in Digits

RECURSIVE StripLeft(_, _)
StripLeft(t, cs) ==
    IF t # <<>> /\ Head(t) \in cs THEN StripLeft(Tail(t), cs) ELSE t

RECURSIVE StripRight(_, _)
StripRight(t, cs) ==
    IF t # <<>> /\ t[Len(t)] \in cs THEN StripRight(SubSeq(t, 1, Len(t) - 1), cs) ELSE t

\* str.strip(cs)
Strip(t, cs) == StripRight(StripLeft(t, cs), cs)

\* clean_str: None and the empty string are both <<>>
clean_str(t) == Strip(t, {" "})

RECURSIVE SlugLoop(_, _, _)
SlugLoop(t, out, prev_dash) ==
    IF t = <<>> THEN out
    ELSE IF IsAlnum(Head(t)) THEN SlugLoop(Tail(t), Append(out, Head(t)), FALSE)
    ELSE IF ~prev_dash THEN SlugLoop(Tail(t), Append(out, "-"), TRUE)
    ELSE SlugLoop(Tail(t), out, TRUE)

DefaultSlug == <<"p", "o", "s", "t">>

slugify(value) ==
    LET v    == [i \in 1..Len(Strip(value, {" "})) |-> Lower(Strip(value, {" "})[i])]
        slug == Strip(SlugLoop(v, <<>>, FALSE), {"-"})
    IN IF slug # <<>> THEN slug ELSE DefaultSlug

----------------------------------------------------------------------------
\* Sessions and the two gates

ACCESS_FEATURES == {"home", "places", "blog", "contact", "about"}

ClearedSession == [user_id |-> NoUser, anonymous_preview |-> FALSE]

SignedInKeepingSession(sess, id) == [sess EXCEPT !.user_id = id]

\* session.clear() followed by session["user_id"] = user.id
SignedIn(sess, id) == [ClearedSession EXCEPT !.user_id = id]

is_authenticated(sess) ==
    IF sess.anonymous_preview THEN FALSE ELSE sess.user_id # NoUser

anonymous_allowed_strict(rs, feature) ==
    IF feature \notin DOMAIN rs THEN FALSE ELSE rs[feature]

anonymous_allowed(rs, feature) ==
    IF feature \notin DOMAIN rs THEN TRUE ELSE rs[feature]

require_feature_auth_first(rs, sess, feature) ==
    IF anonymous_allowed(rs, feature) THEN "view"
    ELSE IF ~is_authenticated(sess) THEN "login"
    ELSE IF sess.anonymous_preview THEN "denied"
    ELSE "view"

\* what the decorator's wrapper does: run the view, render the denial
\* template, or redirect to auth.login
require_feature(rs, sess, feature) ==
    IF anonymous_allowed(rs, feature) THEN "view"
    ELSE IF sess.anonymous_preview THEN "denied"
    ELSE IF ~is_authenticated(sess) THEN "login"
    ELSE "view"

is_admin_outside_preview(us, sess) ==
    /\ ~sess.anonymous_preview
    /\ sess.user_id # NoUser
    /\ sess.user_id \in DOMAIN us
    /\ us[sess.user_id].role = "admin"

is_admin_any_user(us, sess) ==
    sess.user_id # NoUser /\ sess.user_id \in DOMAIN us

is_admin(us, sess) ==
    /\ sess.user_id # NoUser
    /\ sess.user_id \in DOMAIN us
    /\ us[sess.user_id].role = "admin"

\* the id of the user row current_user() returns, NoUser for None
current_user(us, sess) ==
    IF sess.anonymous_preview THEN NoUser
    ELSE IF sess.user_id = NoUser THEN NoUser
    ELSE IF sess.user_id \in DOMAIN us THEN sess.user_id ELSE NoUser

inject_globals_showing_user(us, sess) ==
    LET user == IF sess.user_id # NoUser /\ sess.user_id \in DOMAIN us
                THEN sess.user_id ELSE NoUser
    IN [current_user |-> user,
        is_authenticated |-> (user # NoUser),
        is_admin |-> (user # NoUser /\ us[user].role = "admin"),
        is_anonymous_preview |-> sess.anonymous_preview]

\* the identity keys of the context processor's dict (the other keys are
\* site settings)
inject_globals(us, sess) ==
    LET user == IF sess.user_id # NoUser /\ sess.user_id \in DOMAIN us
                THEN sess.user_id ELSE NoUser
    IN [current_user |-> IF sess.anonymous_preview THEN NoUser ELSE user,
        is_authenticated |-> (user # NoUser /\ ~sess.anonymous_preview),
        is_admin |-> (user # NoUser /\ us[user].role = "admin"),
        is_anonymous_preview |-> sess.anonymous_preview]

UngatedAdminEndpoints == {"admin.admin_login", "admin.admin_index"}

\* the blueprint's before_request hook
_admin_auth_gate(us, sess, endpoint) ==
    IF is_admin(us, sess) THEN "pass"
    ELSE IF endpoint \in UngatedAdminEndpoints THEN "pass"
    ELSE "login"

admin_required(us, sess) == IF ~is_admin(us, sess) THEN "login" ELSE "view"

\* admin views that are not wrapped in @admin_required
UndecoratedAdminEndpoints ==
    {"admin.admin_index", "admin.admin_login", "admin.admin_logout"}

\* before_request hook, then the decorator, then the view
AdminDispatch(us, sess, endpoint) ==
    IF _admin_auth_gate(us, sess, endpoint) = "login" THEN "login"
    ELSE IF endpoint \in UndecoratedAdminEndpoints THEN "view"
    ELSE admin_required(us, sess)

FeatureOf(endpoint) ==
    CASE endpoint = "public.home" -> "home"
      [] endpoint \in {"public.places", "public.place_detail"} -> "places"
      [] endpoint \in {"public.blog_index", "public.blog_post"} -> "blog"
      [] endpoint = "public.about" -> "about"
      [] endpoint = "public.contact" -> "contact"

PublicEndpoints ==
    {"public.home", "public.places", "public.place_detail", "public.blog_index",
     "public.blog_post", "public.about", "public.contact"}

RuleStatus(rs, feature) ==
    IF feature \notin DOMAIN rs THEN "absent"
    ELSE IF rs[feature] THEN "allowed" ELSE "restricted"

\* next_url = request.full_path if request.query_string else request.path
NextUrl(endpoint, query) == <<endpoint, query>>

\* rows the content tables were ever given (their autoincrement counters)
RowsEver ==
    idseq["category"] + idseq["place"] + idseq["blog_post"] + idseq["contact_message"]

\* a template is rendered by the denial view, a page and a form shown again
Renders(outcome, result) ==
    outcome = "denied" \/ (outcome = "view" /\ result \in {"page", "form_error"})

\* the record kept of a request: who asked, and how it was answered
Answer(endpoint, query, rule, outcome, result, location, nxt) ==
    [endpoint |-> endpoint, query |-> query,
     admin |-> is_admin(users, session),
     preview |-> session.anonymous_preview,
     user_id |-> session.user_id,
     rule |-> rule, outcome |-> outcome, ran |-> (outcome = "view"),
     result |-> result, location |-> location, next |-> nxt,
     given |-> <<>>, target |-> <<>>,
     rendered |-> Renders(outcome, result),
     context |-> IF Renders(outcome, result) THEN inject_globals(users, session)
                 ELSE NoContext,
     now |-> NoDate, shown |-> {},
     path |-> <<>>, method |-> "none", handled |-> result, logging |-> "none",
     flash |-> "none", post_id |-> 0, outbound |-> "none",
     prior |-> Null, again |-> FALSE, recipient |-> Null, channel |-> Null]

\* redirect(url_for("auth.login", next=next_url))
LoginRedirect(endpoint, query, rule) ==
    Answer(endpoint, query, rule, "login", "none", "auth.login", NextUrl(endpoint, query))

DeniedWithRedirect(endpoint, query, rule) ==
    Answer(endpoint, query, rule, "login", "none", "auth.register", NextUrl(endpoint, query))

\* render_template("public/anonymous_preview_denied.html", feature=feature)
Denied(endpoint, query, rule) ==
    Answer(endpoint, query, rule, "denied", "none", "none", <<"none", "">>)

Ran(endpoint, query, rule, result, location) ==
    Answer(endpoint, query, rule, "view", result, location, <<"none", "">>)

----------------------------------------------------------------------------
\* The page-view log: create_app's after_request hook.  A path is the text
\* of request.path.

AdminPath == <<"/", "a", "d", "m", "i", "n">>

StaticPath == <<"/", "s", "t", "a", "t", "i", "c">>

UploadsPath == <<"/", "u", "p", "l", "o", "a", "d", "s">>

FaviconPath == <<"/", "f", "a", "v", "i", "c", "o", "n", ".", "i", "c", "o">>

\* str.startswith
StartsWith(t, prefix) ==
    /\ Len(t) >= Len(prefix)
    /\ \A i \in 1..Len(prefix) : t[i] = prefix[i]

\* the paths the hook returns early on
Skipped(path) ==
    \/ StartsWith(path, AdminPath)
    \/ StartsWith(path, StaticPath)
    \/ StartsWith(path, UploadsPath)
    \/ path = FaviconPath

\* where the logging path can raise; "none" when nothing does
Faults == {"none", "build", "add", "commit"}

\* how far the hook gets: it returns early, or the insert is committed, or
\* an exception is raised.  Without the table the INSERT of db.commit()
\* raises OperationalError.
Logging(path, method, fault) ==
    IF Skipped(path) \/ method \notin {"GET", "HEAD"} THEN "skipped"
    ELSE IF fault # "none" THEN fault
    ELSE IF ~page_view.exists THEN "commit"
    ELSE "written"

\* the hook without its try/except: the exception reaches Flask
_log_page_view_raising(response, path, method, fault) ==
    LET how == Logging(path, method, fault)
    IN /\ how = "written" => page_view.rows < MaxViews
       /\ page_view' = IF how = "written" THEN [page_view EXCEPT !.rows = @ + 1]
                       ELSE page_view
       /\ last' = [response EXCEPT !.path = path, !.method = method, !.logging = how,
                                   !.result = IF how \in {"skipped", "written"} THEN @
                                              ELSE "server_error"]

\* _log_page_view(response): adds and commits a PageView for an eligible
\* request, swallows every exception and returns the response it was given
_log_page_view(response, path, method, fault) ==
    LET how == Logging(path, method, fault)
    IN /\ how = "written" => page_view.rows < MaxViews
       /\ page_view' = IF how = "written" THEN [page_view EXCEPT !.rows = @ + 1]
                       ELSE page_view
       /\ last' = [response EXCEPT !.path = path, !.method = method, !.logging = how]

\* request.path of the public pages
PathOf(endpoint) ==
    CASE endpoint = "public.home" -> <<"/">>
      [] endpoint = "public.places" -> <<"/", "p", "l", "a", "c", "e", "s">>
      [] endpoint = "public.place_detail" -> <<"/", "p", "l", "a", "c", "e", "s", "/", "1">>
      [] endpoint = "public.blog_index" -> <<"/", "b", "l", "o", "g">>
      [] endpoint = "public.blog_post" -> <<"/", "b", "l", "o", "g", "/", "x">>
      [] endpoint = "public.about" -> <<"/", "a", "b", "o", "u", "t">>
      [] endpoint = "public.contact" -> <<"/", "c", "o", "n", "t", "a", "c", "t">>

\* any request: the application answers path and method with result, and
\* the hook sees the response on its way out
Served(path, method, result, fault) ==
    /\ pc = "serving"
    /\ _log_page_view(Ran("other", "", "none", result, "none"), path, method, fault)
    /\ UNCHANGED <<upgradeVars, cacheVars, inflight, session, users, dataVars, idseq>>

----------------------------------------------------------------------------
\* Public requests

\* what the decorated view answers: onView when the gate lets the request
\* through
GateAnswer(endpoint, query, onView) ==
    LET f == FeatureOf(endpoint)
        g == require_feature(rules, session, f)
    IN CASE g = "view"   -> onView
         [] g = "denied" -> Denied(endpoint, query, RuleStatus(rules, f))
         [] g = "login"  -> LoginRedirect(endpoint, query, RuleStatus(rules, f))

\* a GET of a page behind @require_feature; the views only read
PublicGet(endpoint, query) ==
    /\ pc = "serving"
    /\ _log_page_view(GateAnswer(endpoint, query,
                                 Ran(endpoint, query, RuleStatus(rules, FeatureOf(endpoint)),
                                     "page", "none")),
                      PathOf(endpoint), "GET", "none")
    /\ UNCHANGED <<upgradeVars, cacheVars, inflight, session, users, dataVars, idseq>>

\* .limit(200) of the blog list
ListLimit == 200

IsVisibleAnyStatus(post, now) ==
    post.publish_at = NoDate \/ post.publish_at <= now

\* status == "published" AND (publish_at IS NULL OR publish_at <= now)
IsVisible(post, now) ==
    /\ post.status = "published"
    /\ (post.publish_at = NoDate \/ post.publish_at <= now)

\* COALESCE(publish_at, created_at)
SortKey(post) == IF post.publish_at # NoDate THEN post.publish_at ELSE post.created_at

\* ORDER BY COALESCE(publish_at, created_at) DESC, id DESC: j comes before i
ListedBefore(ps, j, i) ==
    \/ SortKey(ps[j]) > SortKey(ps[i])
    \/ SortKey(ps[j]) = SortKey(ps[i]) /\ j > i

\* the ids of the posts blog_index hands to its template
blog_list(ps, now) ==
    LET V == { i \in DOMAIN ps : IsVisible(ps[i], now) }
    IN { i \in V : Cardinality({ j \in V : ListedBefore(ps, j, i) }) < ListLimit }

\* the ids of the posts blog_post finds for a slug (at most one: slug is unique)
blog_find(ps, slug, now) ==
    { i \in DOMAIN ps : ps[i].slug = slug /\ IsVisible(ps[i], now) }

\* GET /blog at time now
BlogIndex(now) ==
    /\ pc = "serving"
    /\ LET e == "public.blog_index"
       IN _log_page_view(GateAnswer(e, "",
                             [Ran(e, "", RuleStatus(rules, "blog"), "page", "none")
                              EXCEPT !.now = now, !.shown = blog_list(posts, now)]),
                         PathOf(e), "GET", "none")
    /\ UNCHANGED <<upgradeVars, cacheVars, inflight, session, users, dataVars, idseq>>

\* GET /blog/<slug> at time now
BlogPostView(slug, now) ==
    /\ pc = "serving"
    /\ LET e     == "public.blog_post"
           found == blog_find(posts, slug, now)
       IN _log_page_view(GateAnswer(e, "",
                             [Ran(e, "", RuleStatus(rules, "blog"),
                                  IF found = {} THEN "not_found" ELSE "page", "none")
                              EXCEPT !.now = now, !.shown = found, !.given = slug]),
                         PathOf(e), "GET", "none")
    /\ UNCHANGED <<upgradeVars, cacheVars, inflight, session, users, dataVars, idseq>>

----------------------------------------------------------------------------
\* Outbound calls: SMTP and the RSS feed of the channel

\* a setting with a value that is not empty
Truthy(st, k) == k \in DOMAIN st /\ st[k] # Null

is_smtp_configured(st) == Truthy(st, "smtp_host") /\ Truthy(st, "smtp_from")

\* send_contact_email_if_configured returns early without host, to or from
contact_mail_configured(st) ==
    Truthy(st, "smtp_host") /\ Truthy(st, "smtp_to") /\ Truthy(st, "smtp_from")

\* what became of the call: not made, made, or an exception out of
\* smtplib or urllib
Outbound(made, delivered) ==
    IF ~made THEN "none" ELSE IF delivered THEN "sent" ELSE "raised"

_CACHE_TTL_SECONDS == 300

\* _extract_channel_id on the values the youtube_channel setting takes here:
\* a bare id, the URL of a channel page, a handle
_extract_channel_id(channel_value) ==
    CASE channel_value = "UCvlog" -> "UCvlog"
      [] channel_value = "https://www.youtube.com/channel/UCvlog" -> "UCvlog"
      [] channel_value = "UCother" -> "UCother"
      [] OTHER -> Null

\* what the fetch of the feed gives: an exception, or the newest video
Feeds == {"raise", "v1", "v2"}

\* _parse_latest_video(_fetch_rss(id)) inside the try: None when it raises
Fetched(feed) == IF feed = "raise" THEN Null ELSE feed

CacheFreshInclusive(cache, id, now) ==
    id \in DOMAIN cache /\ now - cache[id].cached_at <= _CACHE_TTL_SECONDS

\* `cached is not None and now - cached_at < _CACHE_TTL_SECONDS`
CacheFresh(cache, id, now) ==
    id \in DOMAIN cache /\ now - cache[id].cached_at < _CACHE_TTL_SECONDS

\* _CACHE[channel_id] = (now, latest)
CachePut(cache, id, now, latest) ==
    [k \in (DOMAIN cache) \cup {id} |->
        IF k = id THEN [cached_at |-> now, value |-> latest] ELSE cache[k]]

\* get_latest_video: what it returns, whether it fetched, and the cache after
get_latest_video(cache, channel_value, now, feed) ==
    LET id == _extract_channel_id(channel_value)
    IN IF id = Null
       THEN [returned |-> Null, fetched |-> FALSE, cache |-> cache]
       ELSE IF CacheFresh(cache, id, now)
       THEN [returned |-> cache[id].value, fetched |-> FALSE, cache |-> cache]
       ELSE [returned |-> Fetched(feed), fetched |-> TRUE,
             cache |-> CachePut(cache, id, now, Fetched(feed))]

\* get_setting(db, key)
get_setting(st, key) == IF key \in DOMAIN st THEN st[key] ELSE Null

\* GET /: the view calls get_latest_video, which has no video when the
\* fetch or the parse raises
Home(feed) ==
    /\ pc = "serving"
    /\ LET e == "public.home"
           got == get_latest_video(_CACHE, get_setting(settings, "youtube_channel"),
                                   clock, feed)
           viewed == require_feature(rules, session, FeatureOf(e)) = "view"
       IN /\ _log_page_view(GateAnswer(e, "",
                                [Ran(e, "", RuleStatus(rules, "home"), "page", "none")
                                 EXCEPT !.outbound = Outbound(got.fetched, feed # "raise")]),
                            PathOf(e), "GET", "none")
          /\ _CACHE' = IF viewed THEN got.cache ELSE _CACHE
    /\ UNCHANGED <<upgradeVars, clock, inflight, session, users, dataVars, idseq>>

\* a call of get_latest_video with the channel setting as it is then
GetLatestVideo(channel_value, feed) ==
    /\ pc = "serving"
    /\ LET got == get_latest_video(_CACHE, channel_value, clock, feed)
       IN /\ _CACHE' = got.cache
          /\ last' = [NoRequest EXCEPT !.endpoint = "get_latest_video",
                                       !.channel = _extract_channel_id(channel_value),
                                       !.result = got.returned,
                                       !.outbound = Outbound(got.fetched, feed # "raise")]
    /\ UNCHANGED <<upgradeVars, clock, session, users, dataVars, idseq, page_view, inflight>>

\* time passes in the serving process
TimePasses(seconds) ==
    /\ pc = "serving"
    /\ clock + seconds <= MaxClock
    /\ clock' = clock + seconds
    /\ UNCHANGED <<upgradeVars, _CACHE, session, users, dataVars, idseq, page_view,
                   inflight, last>>

\* POST /contact; delivered is FALSE when smtplib raises
ContactPost(complete, honeypot, email, delivered) ==
    /\ pc = "serving"
    /\ LET f == "contact"
           g == require_feature(rules, session, f)
           r == RuleStatus(rules, f)
           e == "public.contact"
           stored == g = "view" /\ ~honeypot /\ complete
       IN /\ stored => RowsEver < MaxRows
          /\ last' = CASE g = "denied" -> Denied(e, "", r)
                       [] g = "login"  -> LoginRedirect(e, "", r)
                       [] g = "view" /\ honeypot -> Ran(e, "", r, "redirect", "public.contact")
                       [] g = "view" /\ ~honeypot /\ ~complete -> Ran(e, "", r, "form_error", "none")
                       [] stored ->
                            [Ran(e, "", r, "redirect", "public.contact")
                             EXCEPT !.outbound =
                                 Outbound(contact_mail_configured(settings), delivered)]
          /\ IF stored
             THEN /\ idseq' = [idseq EXCEPT !["contact_message"] = @ + 1]
                  /\ messages' = messages @@
                        ((idseq["contact_message"] + 1) :> [email |-> email, answered_at |-> Null])
             ELSE UNCHANGED <<idseq, messages>>
    /\ UNCHANGED <<upgradeVars, cacheVars, inflight, page_view, session, users, rules, categories, places, posts,
                   settings, uploads>>

----------------------------------------------------------------------------
\* Return-to URLs.  A URL is a text over characters that urlsplit neither
\* strips nor removes (no blanks, no control characters).

\* str.find, counted from 1; 0 when c does not occur
RECURSIVE FindFrom(_, _, _)
FindFrom(t, cs, i) ==
    IF i > Len(t) THEN 0
    ELSE IF t[i] \in cs THEN i
    ELSE FindFrom(t, cs, i + 1)

IsAlpha(c) == \E i \in 1..26 : c \in {UpperChars[i], LowerChars[i]}

\* urllib.parse.scheme_chars
IsSchemeChar(c) == IsAlnum(c) \/ c \in {"+", "-", "."}

\* scheme and netloc as urllib.parse.urlparse splits them off
urlparse(url) ==
    LET i         == FindFrom(url, {":"}, 1)
        hasScheme == /\ i > 1
                     /\ IsAlpha(url[1])
                     /\ \A k \in 1..(i - 1) : IsSchemeChar(url[k])
        rest      == IF hasScheme THEN SubSeq(url, i + 1, Len(url)) ELSE url
        hasNetloc == Len(rest) >= 2 /\ rest[1] = "/" /\ rest[2] = "/"
        delim     == FindFrom(rest, {"/", "?", "#"}, 3)
        stop      == IF delim = 0 THEN Len(rest) ELSE delim - 1
    IN [scheme |-> IF hasScheme THEN [k \in 1..(i - 1) |-> Lower(url[k])] ELSE <<>>,
        netloc |-> IF hasNetloc THEN SubSeq(rest, 3, stop) ELSE <<>>]

_is_safe_next_url_scheme_only(next_url) ==
    IF next_url = <<>> THEN FALSE
    ELSE urlparse(next_url).scheme = <<>>

\* None and "" are both <<>>
_is_safe_next_url(next_url) ==
    IF next_url = <<>> THEN FALSE
    ELSE urlparse(next_url).scheme = <<>> /\ urlparse(next_url).netloc = <<>>

\* redirect(next_url) when the next argument is safe, else
\* redirect(url_for("public.home"))
RedirectAfterLogin(endpoint, next_url) ==
    [Ran(endpoint, "", "none", "redirect",
         IF _is_safe_next_url(next_url) THEN "next" ELSE "public.home")
     EXCEPT !.given = next_url,
            !.target = IF _is_safe_next_url(next_url) THEN next_url ELSE <<>>]

----------------------------------------------------------------------------
\* auth blueprint

EmailTaken(us, email) == \E i \in DOMAIN us : us[i].email = email

NewAdmin(email, password) == [email |-> email, password |-> password, role |-> "admin"]

\* User(email=email, password_hash=..., role="member")
NewMember(email, password) == [email |-> email, password |-> password, role |-> "member"]

\* POST /register
Register(email, password, confirm, next_url) ==
    /\ pc = "serving"
    /\ LET e  == "auth.register"
           ok == email # Null /\ password # Null /\ password = confirm
                    /\ ~EmailTaken(users, email)
           id == idseq["user"] + 1
       IN /\ ok => idseq["user"] < MaxUsers
          /\ IF ok
             THEN /\ users' = users @@ (id :> NewMember(email, password))
                  /\ idseq' = [idseq EXCEPT !["user"] = id]
                  /\ session' = SignedIn(session, id)
                  /\ last' = RedirectAfterLogin(e, next_url)
             ELSE /\ UNCHANGED <<users, idseq, session>>
                  /\ last' = [Ran(e, "", "none", "form_error", "none")
                              EXCEPT !.given = next_url]
    /\ UNCHANGED <<upgradeVars, cacheVars, inflight, page_view, dataVars>>

\* POST /login
Login(email, password, next_url) ==
    /\ pc = "serving"
    /\ LET e  == "auth.login"
           ok == /\ email # Null
                 /\ password # Null
                 /\ \E i \in DOMAIN users :
                        users[i].email = email /\ users[i].password = password
       IN IF ok
          THEN /\ session' = SignedIn(session,
                                       CHOOSE i \in DOMAIN users : users[i].email = email)
               /\ last' = RedirectAfterLogin(e, next_url)
          ELSE /\ UNCHANGED session
               /\ last' = [Ran(e, "", "none", "form_error", "none")
                           EXCEPT !.given = next_url]
    /\ UNCHANGED <<upgradeVars, cacheVars, inflight, page_view, users, dataVars, idseq>>

\* POST /logout
Logout ==
    /\ pc = "serving"
    /\ session' = ClearedSession
    /\ last' = Ran("auth.logout", "", "none", "redirect", "public.home")
    /\ UNCHANGED <<upgradeVars, cacheVars, inflight, page_view, users, dataVars, idseq>>

----------------------------------------------------------------------------
\* admin blueprint

\* an admin request the gates turned away
AdminTurnedAway(endpoint) ==
    /\ AdminDispatch(users, session, endpoint) = "login"
    /\ last' = LoginRedirect(endpoint, "", "none")
    /\ UNCHANGED <<session, users, dataVars, idseq>>

AdminPasses(endpoint) == AdminDispatch(users, session, endpoint) = "view"

ReadOnlyAdminEndpoints ==
    {"admin.admin_places", "admin.admin_dashboard", "admin.admin_posts",
     "admin.admin_messages"}

\* GET of an admin page that only reads
AdminGet(endpoint) ==
    /\ pc = "serving"
    /\ IF AdminPasses(endpoint)
       THEN /\ last' = Ran(endpoint, "", "none", "page", "none")
            /\ UNCHANGED <<session, users, dataVars, idseq>>
       ELSE AdminTurnedAway(endpoint)
    /\ UNCHANGED <<upgradeVars, cacheVars, inflight, page_view>>

\* GET /admin and /admin/
AdminIndex ==
    /\ pc = "serving"
    /\ LET e == "admin.admin_index"
       IN IF AdminPasses(e)
          THEN /\ last' = IF ~is_admin(users, session)
                          THEN Answer(e, "", "none", "view", "redirect", "auth.login",
                                      <<"/admin", "">>)
                          ELSE Ran(e, "", "none", "redirect", "admin.admin_dashboard")
               /\ UNCHANGED <<session, users, dataVars, idseq>>
          ELSE AdminTurnedAway(e)
    /\ UNCHANGED <<upgradeVars, cacheVars, inflight, page_view>>

\* GET or POST /admin/login?next=...: forwards to the site login
AdminLogin(next_arg) ==
    /\ pc = "serving"
    /\ LET e        == "admin.admin_login"
           next_url == IF next_arg # <<>> THEN next_arg ELSE AdminPath
       IN IF AdminPasses(e)
          THEN /\ last' = [Ran(e, "", "none", "redirect", "auth.login")
                           EXCEPT !.given = next_arg,
                                  !.target = IF _is_safe_next_url(next_url)
                                             THEN next_url ELSE AdminPath]
               /\ UNCHANGED <<session, users, dataVars, idseq>>
          ELSE AdminTurnedAway(e)
    /\ UNCHANGED <<upgradeVars, cacheVars, inflight, page_view>>

\* POST /admin/logout
AdminLogout ==
    /\ pc = "serving"
    /\ LET e == "admin.admin_logout"
       IN IF AdminPasses(e)
          THEN /\ session' = ClearedSession
               /\ last' = Ran(e, "", "none", "redirect", "public.home")
               /\ UNCHANGED <<users, dataVars, idseq>>
          ELSE AdminTurnedAway(e)
    /\ UNCHANGED <<upgradeVars, cacheVars, inflight, page_view>>

\* POST /admin/preview/anonymous
AdminPreviewAnonymous ==
    /\ pc = "serving"
    /\ LET e == "admin.admin_preview_anonymous"
       IN IF AdminPasses(e)
          THEN /\ session' = [session EXCEPT !.anonymous_preview = TRUE]
               /\ last' = Ran(e, "", "none", "redirect", "public.home")
               /\ UNCHANGED <<users, dataVars, idseq>>
          ELSE AdminTurnedAway(e)
    /\ UNCHANGED <<upgradeVars, cacheVars, inflight, page_view>>

\* POST /admin/preview/stop
AdminPreviewStop ==
    /\ pc = "serving"
    /\ LET e == "admin.admin_preview_stop"
       IN IF AdminPasses(e)
          THEN /\ session' = [session EXCEPT !.anonymous_preview = FALSE]
               /\ last' = Ran(e, "", "none", "redirect", "public.home")
               /\ UNCHANGED <<users, dataVars, idseq>>
          ELSE AdminTurnedAway(e)
    /\ UNCHANGED <<upgradeVars, cacheVars, inflight, page_view>>

\* POST /admin/access-control: allow is the set of ticked anon_<feature> boxes
AdminAccessControl(allow) ==
    /\ pc = "serving"
    /\ LET e == "admin.admin_access_control"
       IN IF AdminPasses(e)
          THEN /\ rules' = [f \in (DOMAIN rules) \cup ACCESS_FEATURES |->
                               IF f \in ACCESS_FEATURES THEN f \in allow ELSE rules[f]]
               /\ last' = Ran(e, "", "none", "redirect", e)
               /\ UNCHANGED <<session, users, categories, places, posts, settings,
                              messages, uploads, idseq>>
          ELSE AdminTurnedAway(e)
    /\ UNCHANGED <<upgradeVars, cacheVars, inflight, page_view>>

SettingsFormKeys ==
    {"site_name", "theme_primary", "theme_secondary", "hero_image_alt",
     "contact_email", "contact_phone", "featured_youtube_url", "smtp_host",
     "smtp_port", "smtp_username", "smtp_password", "smtp_from", "smtp_to"}

HeroExtensions == {".jpg", ".jpeg", ".png", ".webp", ".gif"}

LogoExtensions == {".jpg", ".jpeg", ".png", ".webp", ".gif", ".svg"}

\* f"hero{ext}" and f"logo{ext}" for the extensions that are let through
StoredName(stem, ext) ==
    IF stem = "hero"
    THEN CASE ext = ".jpg" -> "hero.jpg" [] ext = ".jpeg" -> "hero.jpeg"
           [] ext = ".png" -> "hero.png" [] ext = ".webp" -> "hero.webp"
           [] ext = ".gif" -> "hero.gif" [] OTHER -> "hero.other"
    ELSE CASE ext = ".jpg" -> "logo.jpg" [] ext = ".jpeg" -> "logo.jpeg"
           [] ext = ".png" -> "logo.png" [] ext = ".webp" -> "logo.webp"
           [] ext = ".gif" -> "logo.gif" [] ext = ".svg" -> "logo.svg"
           [] OTHER -> "logo.other"

\* set_setting for each key of m
SetSettings(st, m) ==
    [k \in (DOMAIN st) \cup (DOMAIN m) |-> IF k \in DOMAIN m THEN m[k] ELSE st[k]]

\* POST /admin/settings: form gives the thirteen text fields, hero and logo
\* the extension of the uploaded file (Null: no file)
AdminSettings(form, hero, logo) ==
    /\ pc = "serving"
    /\ LET e == "admin.admin_settings"
           heroBad == hero # Null /\ hero \notin HeroExtensions
           logoBad == logo # Null /\ logo \notin LogoExtensions
           heroName == StoredName("hero", hero)
           logoName == StoredName("logo", logo)
           s1 == SetSettings(settings, form)
           s2 == IF hero # Null THEN SetSettings(s1, ("hero_image_filename" :> heroName)) ELSE s1
           s3 == IF logo # Null THEN SetSettings(s2, ("logo_filename" :> logoName)) ELSE s2
       IN IF AdminPasses(e)
          THEN /\ last' = [Ran(e, "", "none", "redirect", e)
                           EXCEPT !.flash =
                               IF heroBad THEN "Hero image must be a JPG, PNG, WEBP, or GIF"
                               ELSE IF logoBad THEN "Logo must be a JPG, PNG, WEBP, GIF, or SVG"
                               ELSE "Settings saved"]
               /\ settings' = IF heroBad \/ logoBad THEN settings ELSE s3
               /\ uploads' = IF heroBad THEN uploads
                             ELSE (uploads \cup (IF hero # Null THEN {heroName} ELSE {}))
                                  \cup (IF logo # Null /\ ~logoBad THEN {logoName} ELSE {})
               /\ UNCHANGED <<session, users, rules, categories, places, posts,
                              messages, idseq>>
          ELSE AdminTurnedAway(e)
    /\ UNCHANGED <<upgradeVars, cacheVars, inflight, page_view>>

\* POST /admin/categories
AdminCategories(name) ==
    /\ pc = "serving"
    /\ LET e == "admin.admin_categories"
           exists == \E i \in DOMAIN categories : categories[i].name = name
           ok == name # Null /\ ~exists
           id == idseq["category"] + 1
       IN IF AdminPasses(e)
          THEN /\ ok => RowsEver < MaxRows
               /\ IF ok
                  THEN /\ categories' = categories @@ (id :> [name |-> name])
                       /\ idseq' = [idseq EXCEPT !["category"] = id]
                       /\ last' = Ran(e, "", "none", "redirect", e)
                  ELSE /\ UNCHANGED <<categories, idseq>>
                       /\ last' = Ran(e, "", "none", "form_error", "none")
               /\ UNCHANGED <<session, users, rules, places, posts, settings,
                              messages, uploads>>
          ELSE AdminTurnedAway(e)
    /\ UNCHANGED <<upgradeVars, cacheVars, inflight, page_view>>

\* the rows of f other than id
Without(f, id) == [i \in (DOMAIN f) \ {id} |-> f[i]]

\* the store init_db built with Base.metadata.create_all: the one that has
\* the page_view table.  Its place.category_id is ForeignKey("category.id")
\* without an ON DELETE action; the SQLite upgrade writes ON DELETE SET NULL.
BuiltByCreateAll == page_view.exists

\* the DELETE of a category row that places refer to violates the foreign
\* key where there is no ON DELETE action
DeleteRestricted(id) ==
    BuiltByCreateAll /\ \E i \in DOMAIN places : places[i].category_id = id

\* POST /admin/categories/<id>/delete
AdminCategoryDelete(id) ==
    /\ pc = "serving"
    /\ LET e == "admin.admin_category_delete"
           raised == id \in DOMAIN categories /\ DeleteRestricted(id)
       IN IF AdminPasses(e)
          THEN /\ IF id \in DOMAIN categories /\ ~raised
                  THEN /\ categories' = Without(categories, id)
                       /\ places' = [i \in DOMAIN places |->
                                       IF places[i].category_id = id
                                       THEN [places[i] EXCEPT !.category_id = NoCategory]
                                       ELSE places[i]]
                  ELSE UNCHANGED <<categories, places>>
               /\ last' = [Ran(e, "", "none",
                               IF raised THEN "server_error" ELSE "redirect",
                               IF raised THEN "none" ELSE "admin.admin_categories")
                           EXCEPT !.post_id = id]
               /\ UNCHANGED <<session, users, rules, posts, settings, messages,
                              uploads, idseq>>
          ELSE AdminTurnedAway(e)
    /\ UNCHANGED <<upgradeVars, cacheVars, inflight, page_view>>

\* POST /admin/places/new; an unknown category id violates the foreign key
AdminPlaceNew(name, category_id) ==
    /\ pc = "serving"
    /\ LET e == "admin.admin_place_new"
           fk == category_id = NoCategory \/ category_id \in DOMAIN categories
           ok == name # Null /\ fk
           id == idseq["place"] + 1
       IN IF AdminPasses(e)
          THEN /\ ok => RowsEver < MaxRows
               /\ IF ok
                  THEN /\ places' = places @@ (id :> [name |-> name, category_id |-> category_id])
                       /\ idseq' = [idseq EXCEPT !["place"] = id]
                       /\ last' = Ran(e, "", "none", "redirect", "admin.admin_places")
                  ELSE /\ UNCHANGED <<places, idseq>>
                       /\ last' = Ran(e, "", "none",
                                      IF name = Null THEN "form_error" ELSE "server_error",
                                      "none")
               /\ UNCHANGED <<session, users, rules, categories, posts, settings,
                              messages, uploads>>
          ELSE AdminTurnedAway(e)
    /\ UNCHANGED <<upgradeVars, cacheVars, inflight, page_view>>

\* POST /admin/places/<id>/edit
AdminPlaceEdit(id, name, category_id) ==
    /\ pc = "serving"
    /\ LET e == "admin.admin_place_edit"
           fk == category_id = NoCategory \/ category_id \in DOMAIN categories
       IN IF AdminPasses(e)
          THEN /\ IF id \in DOMAIN places /\ name # Null /\ fk
                  THEN /\ places' = [places EXCEPT ![id] =
                                        [name |-> name, category_id |-> category_id]]
                       /\ last' = Ran(e, "", "none", "redirect", "admin.admin_places")
                  ELSE /\ UNCHANGED places
                       /\ last' = Ran(e, "", "none",
                                      IF id \notin DOMAIN places THEN "not_found"
                                      ELSE IF name = Null THEN "form_error"
                                      ELSE "server_error", "none")
               /\ UNCHANGED <<session, users, rules, categories, posts, settings,
                              messages, uploads, idseq>>
          ELSE AdminTurnedAway(e)
    /\ UNCHANGED <<upgradeVars, cacheVars, inflight, page_view>>

\* POST /admin/places/<id>/delete
AdminPlaceDelete(id) ==
    /\ pc = "serving"
    /\ LET e == "admin.admin_place_delete"
       IN IF AdminPasses(e)
          THEN /\ places' = IF id \in DOMAIN places THEN Without(places, id) ELSE places
               /\ last' = Ran(e, "", "none", "redirect", "admin.admin_places")
               /\ UNCHANGED <<session, users, rules, categories, posts, settings,
                              messages, uploads, idseq>>
          ELSE AdminTurnedAway(e)
    /\ UNCHANGED <<upgradeVars, cacheVars, inflight, page_view>>

SlugTakenByTitle(ps, slug, except) ==
    \E i \in DOMAIN ps : i # except /\ slugify(ps[i].title) = slug

\* a post other than `except` has the slug
SlugTaken(ps, slug, except) ==
    \E i \in DOMAIN ps : i # except /\ ps[i].slug = slug

\* POST /admin/posts/new
AdminPostNew(title, slug, status, publish_at) ==
    /\ pc = "serving"
    /\ LET e == "admin.admin_post_new"
           t == clean_str(title)
           sl == clean_str(slug)
           final_slug == IF sl # <<>> THEN sl ELSE slugify(t)
           ok == t # <<>> /\ ~SlugTaken(posts, final_slug, 0)
           id == idseq["blog_post"] + 1
       IN IF AdminPasses(e)
          THEN /\ ok => RowsEver < MaxRows
               /\ IF ok
                  THEN /\ posts' = posts @@ (id :> [title |-> t, slug |-> final_slug,
                                                    status |-> status,
                                                    publish_at |-> publish_at,
                                                    created_at |-> Today])
                       /\ idseq' = [idseq EXCEPT !["blog_post"] = id]
                       /\ last' = [Ran(e, "", "none", "redirect", "admin.admin_posts")
                                   EXCEPT !.given = title, !.target = slug]
                  ELSE /\ UNCHANGED <<posts, idseq>>
                       /\ last' = [Ran(e, "", "none", "form_error", "none")
                                   EXCEPT !.given = title, !.target = slug,
                                          !.flash = IF t = <<>> THEN "Title is required"
                                                    ELSE "Slug already exists"]
               /\ UNCHANGED <<session, users, rules, categories, places, settings,
                              messages, uploads>>
          ELSE AdminTurnedAway(e)
    /\ UNCHANGED <<upgradeVars, cacheVars, inflight, page_view>>

\* POST /admin/posts/<id>/edit
AdminPostEdit(id, title, slug, status, publish_at) ==
    /\ pc = "serving"
    /\ LET e == "admin.admin_post_edit"
           t == clean_str(title)
           sl == clean_str(slug)
           ok == t # <<>> /\ sl # <<>> /\ ~SlugTaken(posts, sl, id)
       IN IF AdminPasses(e)
          THEN /\ IF id \in DOMAIN posts /\ ok
                  THEN /\ posts' = [posts EXCEPT ![id] =
                                       [title |-> t, slug |-> sl, status |-> status,
                                        publish_at |-> publish_at,
                                        created_at |-> posts[id].created_at]]
                       /\ last' = [Ran(e, "", "none", "redirect", "admin.admin_posts")
                                   EXCEPT !.given = title, !.target = slug, !.post_id = id]
                  ELSE /\ UNCHANGED posts
                       /\ last' = [Ran(e, "", "none",
                                       IF id \notin DOMAIN posts THEN "not_found"
                                       ELSE "form_error", "none")
                                   EXCEPT !.given = title, !.target = slug, !.post_id = id,
                                          !.flash =
                                             IF id \notin DOMAIN posts THEN "none"
                                             ELSE IF t = <<>> \/ sl = <<>>
                                                  THEN "Title and slug are required"
                                             ELSE "Slug already exists"]
               /\ UNCHANGED <<session, users, rules, categories, places, settings,
                              messages, uploads, idseq>>
          ELSE AdminTurnedAway(e)
    /\ UNCHANGED <<upgradeVars, cacheVars, inflight, page_view>>

\* POST /admin/posts/<id>/delete
AdminPostDelete(id) ==
    /\ pc = "serving"
    /\ LET e == "admin.admin_post_delete"
       IN IF AdminPasses(e)
          THEN /\ posts' = IF id \in DOMAIN posts THEN Without(posts, id) ELSE posts
               /\ last' = Ran(e, "", "none", "redirect", "admin.admin_posts")
               /\ UNCHANGED <<session, users, rules, categories, places, settings,
                              messages, uploads, idseq>>
          ELSE AdminTurnedAway(e)
    /\ UNCHANGED <<upgradeVars, cacheVars, inflight, page_view>>

Now == "now"

MarkedAfterAttempt(msg, sent) == [msg EXCEPT !.answered_at = Now]

\* `if sent: msg.answered_at = datetime.now(...)`
MarkedAfterReply(msg, sent) == IF sent THEN [msg EXCEPT !.answered_at = Now] ELSE msg

\* POST /admin/messages/<id>/reply; delivered is FALSE when smtplib raises
AdminMessageReply(id, blank, delivered) ==
    /\ pc = "serving"
    /\ LET e == "admin.admin_message_reply"
           sent == /\ id \in DOMAIN messages
                   /\ is_smtp_configured(settings)
                   /\ ~blank
                   /\ messages[id].email # Null
                   /\ delivered
       IN IF AdminPasses(e)
          THEN /\ messages' = IF id \in DOMAIN messages
                              THEN [messages EXCEPT ![id] = MarkedAfterReply(@, sent)]
                              ELSE messages
               /\ last' = [Ran(e, "", "none",
                               IF id \notin DOMAIN messages THEN "not_found"
                               ELSE IF ~is_smtp_configured(settings) THEN "redirect"
                               ELSE IF blank THEN "form_error"
                               ELSE IF ~delivered THEN "server_error"
                               ELSE "redirect",
                               "admin.admin_messages")
                           EXCEPT !.post_id = id,
                                  !.outbound =
                                      Outbound(/\ id \in DOMAIN messages
                                               /\ is_smtp_configured(settings)
                                               /\ ~blank
                                               /\ messages[id].email # Null,
                                               delivered),
                                  !.recipient =
                                      IF /\ id \in DOMAIN messages
                                         /\ is_smtp_configured(settings)
                                         /\ ~blank
                                      THEN messages[id].email ELSE Null]
               /\ UNCHANGED <<session, users, rules, categories, places, posts,
                              settings, uploads, idseq>>
          ELSE AdminTurnedAway(e)
    /\ UNCHANGED <<upgradeVars, cacheVars, inflight, page_view>>

ToggledAlwaysAnswered(answered_at) == Now

\* None if msg.answered_at else the time of the request
Toggled(answered_at) == IF answered_at # Null THEN Null ELSE Now

\* POST /admin/messages/<id>/toggle-answered
AdminMessageToggleAnswered(id) ==
    /\ pc = "serving"
    /\ LET e == "admin.admin_message_toggle_answered"
       IN IF AdminPasses(e)
          THEN /\ IF id \in DOMAIN messages
                  THEN /\ messages' = [messages EXCEPT ![id].answered_at = Toggled(@)]
                       /\ last' = [Ran(e, "", "none", "redirect", "admin.admin_messages")
                                   EXCEPT !.post_id = id,
                                          !.prior = messages[id].answered_at,
                                          !.again = /\ last.endpoint = e
                                                    /\ last.result = "redirect"
                                                    /\ last.post_id = id]
                  ELSE /\ UNCHANGED messages
                       /\ last' = Ran(e, "", "none", "not_found", "none")
               /\ UNCHANGED <<session, users, rules, categories, places, posts,
                              settings, uploads, idseq>>
          ELSE AdminTurnedAway(e)
    /\ UNCHANGED <<upgradeVars, cacheVars, inflight, page_view>>

----------------------------------------------------------------------------
\* Requests served at the same time.  The three handlers that look a value
\* up and insert it when it is not there are taken in two steps, the SELECT
\* and the INSERT with its commit; what one worker commits between the two
\* steps of another is seen by the other's INSERT only.

EndpointOf(kind) ==
    CASE kind = "post" -> "admin.admin_post_new"
      [] kind = "category" -> "admin.admin_categories"
      [] kind = "register" -> "auth.register"

\* the row with the unique value is there: the slug made from the title,
\* the category name, the email
Existing(w) ==
    CASE w.kind = "post" -> SlugTaken(posts, slugify(clean_str(w.title)), 0)
      [] w.kind = "category" -> \E i \in DOMAIN categories : categories[i].name = w.word
      [] w.kind = "register" -> EmailTaken(users, w.word)

\* a worker takes the POST; the admin gates run before the handler
Accept(r, kind, title, word) ==
    /\ pc = "serving"
    /\ inflight[r].pc = "idle"
    /\ IF kind = "register" \/ AdminPasses(EndpointOf(kind))
       THEN /\ inflight' = [inflight EXCEPT ![r] =
                               [kind |-> kind, title |-> title, word |-> word,
                                pc |-> "select", result |-> "none"]]
            /\ UNCHANGED <<session, users, dataVars, idseq, last>>
       ELSE /\ AdminTurnedAway(EndpointOf(kind))
            /\ inflight' = [inflight EXCEPT ![r] = [Idle EXCEPT !.kind = kind,
                                                                !.result = "login"]]
    /\ UNCHANGED <<upgradeVars, cacheVars, page_view>>

\* existing = db.execute(select(...)).scalars().first(), and the flash
\* when there is one
Select(r) ==
    /\ pc = "serving"
    /\ inflight[r].pc = "select"
    /\ IF Existing(inflight[r])
       THEN /\ inflight' = [inflight EXCEPT ![r].pc = "idle", ![r].result = "form_error"]
            /\ last' = Ran(EndpointOf(inflight[r].kind), "", "none", "form_error", "none")
       ELSE /\ inflight' = [inflight EXCEPT ![r].pc = "insert"]
            /\ UNCHANGED last
    /\ UNCHANGED <<upgradeVars, cacheVars, page_view, session, users, dataVars, idseq>>

\* db.add(...); db.commit().  The column is UNIQUE: when the value has been
\* committed meanwhile the INSERT raises IntegrityError, nothing catches it
\* and Flask answers 500.
Insert(r) ==
    /\ pc = "serving"
    /\ inflight[r].pc = "insert"
    /\ LET w == inflight[r]
           e == EndpointOf(w.kind)
       IN IF Existing(w)
          THEN /\ inflight' = [inflight EXCEPT ![r].pc = "idle",
                                               ![r].result = "server_error"]
               /\ last' = Ran(e, "", "none", "server_error", "none")
               /\ UNCHANGED <<session, users, dataVars, idseq>>
          ELSE /\ inflight' = [inflight EXCEPT ![r].pc = "idle", ![r].result = "redirect"]
               /\ w.kind = "register" => idseq["user"] < MaxUsers
               /\ w.kind # "register" => RowsEver < MaxRows
               /\ CASE w.kind = "post" ->
                        /\ posts' = posts @@
                              ((idseq["blog_post"] + 1) :>
                                 [title |-> clean_str(w.title),
                                  slug |-> slugify(clean_str(w.title)),
                                  status |-> "draft", publish_at |-> NoDate,
                                  created_at |-> Today])
                        /\ idseq' = [idseq EXCEPT !["blog_post"] = @ + 1]
                        /\ last' = Ran(e, "", "none", "redirect", "admin.admin_posts")
                        /\ UNCHANGED <<session, users, rules, categories, places,
                                       settings, messages, uploads>>
                    [] w.kind = "category" ->
                        /\ categories' = categories @@
                              ((idseq["category"] + 1) :> [name |-> w.word])
                        /\ idseq' = [idseq EXCEPT !["category"] = @ + 1]
                        /\ last' = Ran(e, "", "none", "redirect", e)
                        /\ UNCHANGED <<session, users, rules, places, posts,
                                       settings, messages, uploads>>
                    [] w.kind = "register" ->
                        /\ users' = users @@
                              ((idseq["user"] + 1) :>
                                 [email |-> w.word, password |-> "pw-member",
                                  role |-> "member"])
                        /\ idseq' = [idseq EXCEPT !["user"] = @ + 1]
                        /\ session' = [user_id |-> idseq["user"] + 1,
                                       anonymous_preview |-> FALSE]
                        /\ last' = RedirectAfterLogin(e, <<>>)
                        /\ UNCHANGED dataVars
    /\ UNCHANGED <<upgradeVars, cacheVars, page_view>>

----------------------------------------------------------------------------
\* The application once create_app has returned

EmptyStore == Store(0, {}, {}, EmptyFn, EmptyFn, EmptyFn, EmptyFn, EmptyFn)

\* the store init_db leaves when started on an empty SQLite file
FreshStore ==
    _set_user_version(
        Step4Seed(Step4Sql(Step3Seed(Step3Sql(Step2Backfill(Step2AddCols(
            Step1Seed(Step1Sql(Step0Sql(EmptyStore))))))))),
        latest_version)

AdminEmail == "admin@example.com"

MemberEmail == "member@example.com"

MyPost == <<"M", "y", " ", "P", "o", "s", "t">>

SettingsForm(site_name, smtp_host, smtp_from) ==
    [k \in SettingsFormKeys |->
        CASE k = "site_name" -> site_name
          [] k = "smtp_host" -> smtp_host
          [] k = "smtp_from" -> smtp_from
          [] OTHER -> Null]

\* the two submissions of the settings form: a PNG logo, and a logo with an
\* extension that is turned down
SettingsPosts ==
    { <<SettingsForm("Vlog", "mail.example.com", "site@example.com"), Null, ".png">>,
      <<SettingsForm("Vlog", "mail.example.com", "site@example.com"), Null, ".exe">> }

\* ticked boxes of the access-control form
AccessForms == { ACCESS_FEATURES, {"home", "about"} }

\* create_app has returned; an admin account exists (create-admin).  The
\* access rules are the seeded defaults on SQLite and absent on a store
\* that init_db built with create_all.
InitContent(cs, pl, ps, st, ms) ==
    /\ disk = FreshStore
    /\ db = FreshStore
    /\ inTxn = FALSE
    /\ pc = "serving"
    /\ version = latest_version
    /\ applied = <<>>
    /\ startVersion = latest_version
    /\ before = FreshStore
    /\ prevDone = FALSE
    /\ runs = 0
    /\ crashedIn = "none"
    /\ session = ClearedSession
    /\ users = (1 :> [email |-> AdminEmail, password |-> "pw-admin", role |-> "admin"])
    /\ \E seeded \in BOOLEAN :
          /\ rules = IF seeded THEN FreshStore.access_rule ELSE EmptyFn
          /\ settings = st @@ (IF seeded THEN FreshStore.site_setting ELSE EmptyFn)
          /\ page_view = [exists |-> IF seeded THEN "page_view" \in FreshStore.tables
                                     ELSE TRUE,
                          rows |-> 0]
    /\ categories = cs
    /\ places = pl
    /\ posts = ps
    /\ messages = ms
    /\ uploads = {}
    /\ inflight = [r \in Workers |-> Idle]
    /\ _CACHE = <<>>
    /\ clock = 0
    /\ idseq = [t \in {"user", "category", "place", "blog_post", "contact_message"} |->
                  IF t = "user" THEN 1
                  ELSE IF t = "blog_post" THEN Cardinality(DOMAIN ps)
                  ELSE IF t = "category" THEN Cardinality(DOMAIN cs)
                  ELSE IF t = "place" THEN Cardinality(DOMAIN pl)
                  ELSE IF t = "contact_message" THEN Cardinality(DOMAIN ms)
                  ELSE 0]
    /\ last = NoRequest

\* the same with posts and settings written before
InitServing(ps, st) == InitContent(EmptyFn, EmptyFn, ps, st, EmptyFn)

Init == InitServing(EmptyFn, EmptyFn)

\* the pages whose views are modelled by what they are gated with only
PlainPublicEndpoints ==
    {"public.places", "public.place_detail", "public.about", "public.contact"}

PublicRequest ==
    \/ \E e \in PlainPublicEndpoints : PublicGet(e, "")
    \/ \E feed \in Feeds : Home(feed)
    \/ BlogIndex(Today)
    \/ BlogPostView(<<"x">>, Today)
    \/ PublicGet("public.places", "q=x")
    \/ \E complete \in BOOLEAN, honeypot \in BOOLEAN, delivered \in BOOLEAN :
          ContactPost(complete, honeypot, "alice@example.com", delivered)

AuthRequest ==
    \/ \E email \in {Null, MemberEmail}, confirm \in {"pw-member", "typo"} :
          Register(email, "pw-member", confirm, <<>>)
    \/ \E email \in {AdminEmail, MemberEmail}, password \in {"pw-admin", "pw-member"} :
          Login(email, password, <<>>)
    \/ Logout

AdminRequest ==
    \/ \E e \in ReadOnlyAdminEndpoints : AdminGet(e)
    \/ AdminIndex
    \/ AdminLogin(<<>>)
    \/ AdminLogout
    \/ AdminPreviewAnonymous
    \/ AdminPreviewStop
    \/ AdminAccessControl({"home", "about"})
    \/ \E p \in SettingsPosts : AdminSettings(p[1], p[2], p[3])
    \/ AdminCategories("Museums")
    \/ \E id \in 1..MaxRows : AdminCategoryDelete(id)
    \/ AdminPlaceNew("Cafe", NoCategory)
    \/ \E id \in 1..MaxRows, c \in {NoCategory, 1} : AdminPlaceEdit(id, "Bistro", c)
    \/ \E id \in 1..MaxRows : AdminPlaceDelete(id)
    \/ AdminPostNew(MyPost, <<>>, "draft", NoDate)
    \/ \E id \in 1..MaxRows : AdminPostEdit(id, MyPost, <<"x">>, "published", NoDate)
    \/ \E id \in 1..MaxRows : AdminPostDelete(id)
    \/ \E id \in 1..MaxRows, delivered \in BOOLEAN :
          AdminMessageReply(id, FALSE, delivered)
    \/ \E id \in 1..MaxRows : AdminMessageToggleAnswered(id)

Next == PublicRequest \/ AuthRequest \/ AdminRequest

Spec == Init /\ [][Next]_vars

\* the requests that pass a gate or change what a gate reads: the public
\* pages, the accounts, the access rules and the preview
NextGate ==
    \/ PublicRequest
    \/ AuthRequest
    \/ AdminIndex
    \/ AdminLogout
    \/ AdminPreviewAnonymous
    \/ AdminPreviewStop
    \/ \E allow \in AccessForms : AdminAccessControl(allow)

SpecGate == Init /\ [][NextGate]_vars

\* the admin area and the requests that give it sessions and messages
NextAdmin ==
    \/ \E complete \in BOOLEAN :
          ContactPost(complete, FALSE, "alice@example.com", TRUE)
    \/ AuthRequest
    \/ AdminRequest

\* the site on the SQLite store that the upgrade built and seeded
InitSqlite == Init /\ ~BuiltByCreateAll

SpecAdmin == InitSqlite /\ [][NextAdmin]_vars

\* /, /blog, /x, /favicon, /admin, /admin/x, /adminx, /static/s, /uploads/u,
\* /favicon.ico
ViewPaths ==
    { <<"/">>, <<"/", "b", "l", "o", "g">>, <<"/", "x">>, <<"/", "f", "a", "v", "i", "c", "o", "n">>,
      AdminPath, <<"/", "a", "d", "m", "i", "n", "/", "x">>, <<"/", "a", "d", "m", "i", "n", "x">>,
      <<"/", "s", "t", "a", "t", "i", "c", "/", "s">>, <<"/", "u", "p", "l", "o", "a", "d", "s", "/", "u">>, FaviconPath }

ViewMethods == {"GET", "HEAD", "POST"}

ViewResults == {"page", "redirect", "not_found"}

\* requests of every kind while nothing but a missing table makes the
\* logging fail
NextLogging ==
    \/ \E path \in ViewPaths, method \in ViewMethods, result \in ViewResults :
          Served(path, method, result, "none")
    \/ \E e \in PlainPublicEndpoints : PublicGet(e, "")

SpecLogging == Init /\ [][NextLogging]_vars

\* requests of every kind while the logging may fail at any point
NextViews ==
    \/ \E path \in ViewPaths, method \in ViewMethods, result \in ViewResults,
          fault \in Faults :
          Served(path, method, result, fault)
    \/ \E e \in PlainPublicEndpoints : PublicGet(e, "")

SpecViews == Init /\ [][NextViews]_vars

MyPostBang == <<"M", "y", " ", "P", "o", "s", "t", "!", "!">>

MyPostSlug == <<"m", "y", "-", "p", "o", "s", "t">>

\* the admin logs in; two workers serve post creations, category creations
\* and registrations
NextRace ==
    \/ Login(AdminEmail, "pw-admin", <<>>)
    \/ \E r \in Workers :
          \/ \E title \in {MyPost, MyPostBang} : Accept(r, "post", title, "")
          \/ Accept(r, "category", <<>>, "Museums")
          \/ Accept(r, "register", <<>>, MemberEmail)
          \/ Select(r)
          \/ Insert(r)

SpecRace == Init /\ [][NextRace]_vars

\* the store with or without a youtube_channel setting, which no form of
\* the site writes
InitMail == \E st \in {EmptyFn, "youtube_channel" :> "UCvlog"} : InitServing(EmptyFn, st)

\* the settings form with the SMTP host, sender and recipient filled in
MailForm == [SettingsForm("Vlog", "mail.example.com", "site@example.com")
             EXCEPT !["smtp_to"] = "owner@example.com"]

\* the requests that call out: the contact form, the reply to a message
\* and the home page, and the admin who configures SMTP
NextMail ==
    \/ Login(AdminEmail, "pw-admin", <<>>)
    \/ AdminSettings(MailForm, Null, ".png")
    \/ \E complete \in BOOLEAN, delivered \in BOOLEAN :
          ContactPost(complete, FALSE, "alice@example.com", delivered)
    \/ \E id \in 1..MaxRows, blank \in BOOLEAN, delivered \in BOOLEAN :
          AdminMessageReply(id, blank, delivered)
    \/ \E feed \in Feeds : Home(feed)

SpecMail == InitMail /\ [][NextMail]_vars

\* the places and categories written before: none, or the category Museums
\* and the place Cafe in it
InitPlaces ==
    \/ InitContent(EmptyFn, EmptyFn, EmptyFn, EmptyFn, EmptyFn)
    \/ InitContent(1 :> [name |-> "Museums"],
                   1 :> [name |-> "Cafe", category_id |-> 1], EmptyFn, EmptyFn, EmptyFn)

\* the admin logs in and creates, edits and deletes places and categories
NextPlaces ==
    \/ Login(AdminEmail, "pw-admin", <<>>)
    \/ \E name \in {Null, "Museums", "Parks"} : AdminCategories(name)
    \/ \E id \in 1..(MaxRows + 1) : AdminCategoryDelete(id)
    \/ \E name \in {Null, "Cafe"}, c \in 0..(MaxRows + 1) : AdminPlaceNew(name, c)
    \/ \E id \in 1..(MaxRows + 1), c \in 0..(MaxRows + 1) : AdminPlaceEdit(id, "Bistro", c)
    \/ \E id \in 1..(MaxRows + 1) : AdminPlaceDelete(id)

SpecPlaces == InitPlaces /\ [][NextPlaces]_vars

\* the contact messages written before: one from a visitor and one from a
\* member, each answered or not
InitMessages ==
    \E a, b \in {Null, Now} :
        InitContent(EmptyFn, EmptyFn, EmptyFn, EmptyFn,
                    <<[email |-> "visitor@example.com", answered_at |-> a],
                      [email |-> MemberEmail, answered_at |-> b]>>)

\* admins and members log in and out and toggle messages, the two stored
\* and one that is not there
NextMessages ==
    \/ AuthRequest
    \/ \E id \in 1..(MaxRows + 2) : AdminMessageToggleAnswered(id)
    \/ AdminGet("admin.admin_messages")

SpecMessages == InitMessages /\ [][NextMessages]_vars

\* extensions of the files sent with the settings form; Null: no file
UploadedExtensions == {Null, ".png", ".svg", ".exe"}

\* the admin logs in and submits the settings form with and without files
NextSettings ==
    \/ Login(AdminEmail, "pw-admin", <<>>)
    \/ \E site_name \in {"Vlog", "Travels"}, hero \in UploadedExtensions,
          logo \in UploadedExtensions :
          AdminSettings(SettingsForm(site_name, Null, Null), hero, logo)
    \/ AdminGet("admin.admin_dashboard")

SpecSettings == Init /\ [][NextSettings]_vars

\* values of the youtube_channel setting
ChannelValues ==
    {Null, "@vlog", "UCvlog", "https://www.youtube.com/channel/UCvlog", "UCother"}

\* calls of get_latest_video a little less than, exactly and a little more
\* than the time to live apart
NextCache ==
    \/ \E channel_value \in ChannelValues, feed \in Feeds :
          GetLatestVideo(channel_value, feed)
    \/ \E seconds \in {_CACHE_TTL_SECONDS - 1, _CACHE_TTL_SECONDS,
                        _CACHE_TTL_SECONDS + 1} : TimePasses(seconds)

SpecCache == Init /\ [][NextCache]_vars

\* the settings form with a mail host only, a from address only, and both
ReplyForms ==
    { SettingsForm("Vlog", "mail.example.com", Null),
      SettingsForm("Vlog", Null, "site@example.com"),
      SettingsForm("Vlog", "mail.example.com", "site@example.com") }

\* the admin logs in, fills in the mail settings and replies to messages
NextReply ==
    \/ Login(AdminEmail, "pw-admin", <<>>)
    \/ \E form \in ReplyForms : AdminSettings(form, Null, Null)
    \/ \E id \in 1..(MaxRows + 2), blank \in BOOLEAN, delivered \in BOOLEAN :
          AdminMessageReply(id, blank, delivered)

SpecReply == InitMessages /\ [][NextReply]_vars

\* the posts written before: none, "My Post" with the slug my-post, and
\* that one and a post with the slug x
EarlierPosts ==
    LET row(title, slug) == [title |-> title, slug |-> slug, status |-> "draft",
                             publish_at |-> NoDate, created_at |-> Today]
    IN { EmptyFn,
         1 :> row(MyPost, MyPostSlug),
         (1 :> row(MyPost, MyPostSlug)) @@ (2 :> row(<<"X">>, <<"x">>)) }

InitPosts == \E ps \in EarlierPosts : InitServing(ps, EmptyFn)

PostTitles == {<<>>, <<"X">>, MyPost, MyPostBang}

PostSlugs == {<<>>, <<"x">>, MyPostSlug}

\* the admin logs in and creates, edits and deletes posts
NextPosts ==
    \/ Login(AdminEmail, "pw-admin", <<>>)
    \/ \E title \in PostTitles, slug \in PostSlugs : AdminPostNew(title, slug, "draft", NoDate)
    \/ \E id \in 1..(MaxRows + 1), title \in PostTitles, slug \in PostSlugs :
          AdminPostEdit(id, title, slug, "published", NoDate)
    \/ \E id \in 1..(MaxRows + 1) : AdminPostDelete(id)

SpecPosts == InitPosts /\ [][NextPosts]_vars

\* characters of the return-to URLs tried
UrlChars == {"/", ":", "h"}

\* /admin, /\\h, h://h/, //h/h, /h?h, h+h:h
LongerUrls ==
    { AdminPath, <<"/", "\\", "h">>, <<"h", ":", "/", "/", "h", "/">>,
      <<"/", "/", "h", "/", "h">>, <<"/", "h", "?", "h">>,
      <<"h", "+", "h", ":", "h">> }

\* every URL of at most MaxUrlLen characters and some longer ones; <<>> is
\* a missing next
NextUrls == LongerUrls \cup UNION { [1..n -> UrlChars] : n \in 0..MaxUrlLen }

\* logins, registrations and /admin/login with a next argument
NextReturn ==
    \/ \E n \in NextUrls, confirm \in {"pw-member", "typo"} :
          Register(MemberEmail, "pw-member", confirm, n)
    \/ \E n \in NextUrls, password \in {"pw-admin", "typo"} :
          Login(AdminEmail, password, n)
    \/ \E n \in NextUrls : AdminLogin(n)
    \/ Logout

SpecReturn == Init /\ [][NextReturn]_vars

\* the slug of post i: i times the letter p
SlugOf(i) == [k \in 1..i |-> "p"]

\* blogs of n posts, each a draft or published, undated or dated
BlogsOf(n) ==
    { [i \in 1..n |-> [title |-> MyPost, slug |-> SlugOf(i), status |-> f[i][1],
                        publish_at |-> f[i][2], created_at |-> Today]] :
        f \in [1..n -> {"draft", "published"} \X (0..MaxTime)] }

\* a blog with one published, undated post more than the list holds
LongBlog ==
    [i \in 1..(ListLimit + 1) |->
        [title |-> MyPost, slug |-> SlugOf(i), status |-> "published",
         publish_at |-> NoDate, created_at |-> Today]]

BlogStores == {LongBlog} \cup UNION { BlogsOf(n) : n \in 0..MaxPosts }

InitBlog == \E ps \in BlogStores : InitServing(ps, EmptyFn)

\* the public blog views at any time
NextBlog ==
    \/ \E now \in 1..MaxTime : BlogIndex(now)
    \/ \E i \in 1..(MaxPosts + 1), now \in 1..MaxTime : BlogPostView(SlugOf(i), now)

SpecBlog == InitBlog /\ [][NextBlog]_vars

----------------------------------------------------------------------------
\* Properties of the two gates

AllSessions == [user_id : 0..MaxUsers, anonymous_preview : BOOLEAN]

\* the stores that differ in the row of one feature: no row, a row that
\* allows anonymous access, a row that forbids it
RuleStoresFor(f) == { EmptyFn, (f :> TRUE), (f :> FALSE) }

\* rs with the row of feature f taken out
DropRule(rs, f) == [g \in (DOMAIN rs) \ {f} |-> rs[g]]

\* rs with the row of feature f set to allow
PutRule(rs, f, allow) == [g \in (DOMAIN rs) \cup {f} |-> IF g = f THEN allow ELSE rs[g]]

\* the four cases in their order: (a) absent or allowed, (b) preview,
\* (c) no user id, (d) otherwise
FirstMatchingCase(rule, preview, user_id) ==
    IF rule \in {"absent", "allowed"} THEN "view"
    ELSE IF preview THEN "denied"
    ELSE IF user_id = NoUser THEN "login"
    ELSE "view"

AdminEndpoints ==
    {"admin.admin_index", "admin.admin_login", "admin.admin_logout",
     "admin.admin_places", "admin.admin_settings", "admin.admin_access_control",
     "admin.admin_preview_anonymous", "admin.admin_preview_stop",
     "admin.admin_categories", "admin.admin_category_delete",
     "admin.admin_place_new", "admin.admin_place_edit", "admin.admin_place_delete",
     "admin.admin_dashboard", "admin.admin_posts", "admin.admin_post_new",
     "admin.admin_post_edit", "admin.admin_post_delete", "admin.admin_messages",
     "admin.admin_message_reply", "admin.admin_message_toggle_answered"}

\* the session's user id is that of a role=admin user
BelongsToAdmin(user_id) ==
    user_id \in DOMAIN users /\ users[user_id].role = "admin"

\* a request of a session that is not an admin's leaves places, categories,
\* posts, settings, access rules and every message's answered_at as they are
NonAdminChangesNothing ==
    ~BelongsToAdmin(session.user_id) =>
        /\ UNCHANGED <<places, categories, posts, settings, rules>>
        /\ \A i \in DOMAIN messages :
              i \in DOMAIN messages' /\ messages'[i].answered_at = messages[i].answered_at

\* C2: an admin request other than the admin index and admin login, made
\* by a session that does not belong to a role=admin user, is answered
\* with a redirect to login and no admin handler runs; requests of
\* non-admin sessions never change a place, category, blog post, site
\* setting, access rule or a contact message's answered_at.
C2_AdminAreaIsGated ==
    /\ [](last.endpoint \in AdminEndpoints \ {"admin.admin_index", "admin.admin_login"}
            /\ ~BelongsToAdmin(last.user_id)
          => last.outcome = "login" /\ ~last.ran /\ last.location = "auth.login")
    /\ [][NonAdminChangesNothing]_vars

\* a logged-in member asked to delete the existing post and was sent to
\* the login view; the post is still there
C2_Witness ==
    /\ last.endpoint = "admin.admin_post_delete"
    /\ last.user_id # NoUser
    /\ ~BelongsToAdmin(last.user_id)
    /\ last.outcome = "login"
    /\ posts # EmptyFn

\* the anonymous_access shown for a feature by the access-control page
ShownAccess(rs, f) == IF f \in DOMAIN rs THEN rs[f] ELSE TRUE

\* C9: a feature without an access_rule row behaves as the same feature
\* with a row anonymous_access=true: in the store without the row and in
\* the store with it the gate gives the same outcome for every session
\* state, and a served request on a feature without a row ran its handler.
C9_AbsentRuleIsAllowed ==
    /\ \A f \in ACCESS_FEATURES, sess \in AllSessions :
          /\ require_feature(DropRule(rules, f), sess, f) =
                require_feature(PutRule(rules, f, TRUE), sess, f)
          /\ ShownAccess(DropRule(rules, f), f) = ShownAccess(PutRule(rules, f, TRUE), f)
    /\ last.endpoint \in PublicEndpoints /\ last.rule = "absent" =>
          last.outcome = require_feature(PutRule(rules, FeatureOf(last.endpoint), TRUE),
                                         [user_id |-> last.user_id,
                                          anonymous_preview |-> last.preview],
                                         FeatureOf(last.endpoint))

\* a logged-in user was served a page whose feature has no row
C9_Witness ==
    /\ last.endpoint = "public.blog_index"
    /\ last.rule = "absent"
    /\ "blog" \notin DOMAIN rules
    /\ last.user_id # NoUser
    /\ last.ran

\* a feature request of a session in preview on a restricted feature
\* changes no stored data and not the session
PreviewDeniedRunsNothing ==
    (last'.endpoint \in PublicEndpoints /\ last'.rule = "restricted" /\ last'.preview)
        => UNCHANGED <<dataVars, users, session, idseq>>

C11_VisitorSentToRegister ==
    (/\ last.endpoint \in PublicEndpoints
     /\ last.rule = "restricted"
     /\ ~last.preview
     /\ last.user_id = NoUser)
        => last.outcome = "login" /\ last.location = "auth.register"

\* C12: on a restricted feature an admin in anonymous preview gets the
\* response a logged-out visitor gets for the same request (a redirect,
\* to the same target).
C12_PreviewMatchesVisitor ==
    (/\ last.endpoint \in PublicEndpoints
     /\ last.rule = "restricted"
     /\ last.preview
     /\ BelongsToAdmin(last.user_id))
        => /\ last.outcome = require_feature(rules, ClearedSession, FeatureOf(last.endpoint))
           /\ last.location # "none"

\* what a template rendered for session sess is given about the visitor
Suppressed(sess) ==
    /\ ~is_authenticated(sess)
    /\ current_user(users, sess) = NoUser
    /\ inject_globals(users, sess).current_user = NoUser
    /\ ~inject_globals(users, sess).is_authenticated

\* C13: while anonymous_preview is set the identity is suppressed although
\* the session keeps the user id: is_authenticated() is false,
\* current_user() is none, the template context has current_user none and
\* is_authenticated false; the context offers exit-preview (is_admin with
\* is_anonymous_preview) only when the session user has role=admin.
C13_PreviewSuppressesIdentity ==
    /\ \A sess \in AllSessions :
          /\ sess.anonymous_preview => Suppressed(sess)
          /\ (inject_globals(users, sess).is_admin
                 /\ inject_globals(users, sess).is_anonymous_preview)
               => BelongsToAdmin(sess.user_id)
    /\ (last.rendered /\ last.preview) =>
          /\ last.context.current_user = NoUser
          /\ ~last.context.is_authenticated
          /\ (last.context.is_admin /\ last.context.is_anonymous_preview)
               => BelongsToAdmin(last.user_id)

\* the home page was rendered for an admin in preview: no identity, but
\* the exit-preview affordance
C13_Witness ==
    /\ last.endpoint = "public.home"
    /\ last.rendered
    /\ last.preview
    /\ last.user_id # NoUser
    /\ session.anonymous_preview
    /\ session.user_id = last.user_id
    /\ last.context.is_admin
    /\ last.context.is_anonymous_preview

\* a URL without scheme and without network location
Relative(url) == urlparse(url).scheme = <<>> /\ urlparse(url).netloc = <<>>

\* C14: after a successful login or registration the redirect goes to the
\* supplied next only if next has no scheme and no network location, else
\* to the home page; /admin/login forwards next to the login view only if
\* it is safe, else /admin; none of the three redirects to a target with a
\* scheme or a network location.
C14_ReturnPathIsSafe ==
    /\ urlparse(<<"/", "/", "h">>) = [scheme |-> <<>>, netloc |-> <<"h">>]
    /\ urlparse(<<"h", ":", "/">>) = [scheme |-> <<"h">>, netloc |-> <<>>]
    /\ (last.endpoint \in {"auth.login", "auth.register"} /\ last.result = "redirect") =>
          IF last.given # <<>> /\ Relative(last.given)
          THEN last.location = "next" /\ last.target = last.given
          ELSE last.location = "public.home" /\ last.target = <<>>
    /\ last.endpoint = "admin.admin_login" =>
          /\ last.location = "auth.login"
          /\ last.target = IF last.given # <<>> /\ Relative(last.given)
                           THEN last.given ELSE AdminPath
    /\ last.endpoint \in {"auth.login", "auth.register", "admin.admin_login"} =>
          Relative(last.target)

\* a login with next=//h succeeded and went to the home page
C14_Witness ==
    /\ last.endpoint = "auth.login"
    /\ last.result = "redirect"
    /\ last.given = <<"/", "/", "h">>
    /\ last.location = "public.home"
    /\ session.user_id # NoUser

\* status=published and (publish_at null or publish_at <= now)
Qualifies(post, now) ==
    post.status = "published" /\ (post.publish_at = NoDate \/ post.publish_at <= now)

Qualifying(now) == { i \in DOMAIN posts : Qualifies(posts[i], now) }

\* the detail view of a slug answers with the post if the post of that slug
\* qualifies and with 404 if it does not or there is none
DetailShowsExactlyQualifying ==
    (last.endpoint = "public.blog_post" /\ last.ran) =>
        /\ last.shown = { i \in Qualifying(last.now) : posts[i].slug = last.given }
        /\ (last.result = "not_found") = (last.shown = {})
        /\ last.result \in {"page", "not_found"}

\* C15 as stated: the blog list and the blog detail view include a post if
\* and only if it is published and undated or dated up to now.
C15_ListAndDetailShowExactlyQualifying ==
    /\ (last.endpoint = "public.blog_index" /\ last.ran) =>
          last.shown = Qualifying(last.now)
    /\ DetailShowsExactlyQualifying

\* C15 amended: the detail view includes a post if and only if it
\* qualifies; the list includes only qualifying posts, all of them when at
\* most 200 qualify, and otherwise the 200 that come first by
\* COALESCE(publish_at, created_at) and id, both descending.
C15_ListUpToLimitAndDetail ==
    /\ (last.endpoint = "public.blog_index" /\ last.ran) =>
          /\ last.shown \subseteq Qualifying(last.now)
          /\ Cardinality(Qualifying(last.now)) <= 200 => last.shown = Qualifying(last.now)
          /\ Cardinality(Qualifying(last.now)) > 200 =>
                /\ Cardinality(last.shown) = 200
                /\ \A i \in last.shown, j \in Qualifying(last.now) \ last.shown :
                      \/ SortKey(posts[i]) > SortKey(posts[j])
                      \/ SortKey(posts[i]) = SortKey(posts[j]) /\ i > j
    /\ DetailShowsExactlyQualifying

\* the list of a blog with 201 qualifying posts was served
C15_Witness ==
    /\ last.endpoint = "public.blog_index"
    /\ last.ran
    /\ Cardinality(Qualifying(last.now)) = 201
    /\ Cardinality(last.shown) = 200
    /\ 1 \notin last.shown

\* method GET or HEAD, path not starting with /admin, /static or /uploads
\* and not equal to /favicon.ico
\* path begins with prefix
Begins(path, prefix) ==
    Len(path) >= Len(prefix) /\ SubSeq(path, 1, Len(prefix)) = prefix

Eligible(req) ==
    /\ req.method \in {"GET", "HEAD"}
    /\ ~Begins(req.path, AdminPath)
    /\ ~Begins(req.path, StaticPath)
    /\ ~Begins(req.path, UploadsPath)
    /\ req.path # FaviconPath

EligibleIsCounted ==
    page_view'.rows = page_view.rows + (IF Eligible(last') THEN 1 ELSE 0)

\* C16: every page-view-eligible request served by an application whose
\* store init_db initialised adds exactly one PageView record, and no other
\* request changes the number of records.
C16_EligibleRequestsAreCounted == [][EligibleIsCounted]_vars

\* C17: when the page-view logging of a request fails, while building,
\* adding or committing the record, the client gets the response the
\* handler produced, and so it does when the record is written or the
\* request is not logged at all.
C17_LoggingNeverChangesTheResponse ==
    last.logging # "none" => last.result = last.handled /\ last.result # "server_error"

\* the commit of the record of a GET of / failed although the table
\* exists, and the page was returned
C17_Witness ==
    /\ last.path = <<"/">>
    /\ last.method = "GET"
    /\ page_view.exists
    /\ last.logging = "commit"
    /\ last.result = "page"

\* the slug a submitted post form asks for: the one given, or the one made
\* from the title
AskedSlug(req) == IF Strip(req.target, {" "}) # <<>> THEN Strip(req.target, {" "})
                  ELSE slugify(Strip(req.given, {" "}))

NoSharedSlug(ps) == \A i \in DOMAIN ps, j \in DOMAIN ps : i # j => ps[i].slug # ps[j].slug

\* a create or an edit by the admin that asks for the slug of a post, of
\* another post when it is an edit, is rejected with the duplicate-slug
\* error and changes no post
DuplicateSlugIsRejected ==
    LET req == last'
        others == IF req.endpoint = "admin.admin_post_edit"
                  THEN DOMAIN posts \ {req.post_id} ELSE DOMAIN posts
    IN (/\ req.endpoint \in {"admin.admin_post_new", "admin.admin_post_edit"}
        /\ req.ran
        /\ req.endpoint = "admin.admin_post_edit" => req.post_id \in DOMAIN posts
        /\ Strip(req.given, {" "}) # <<>>
        /\ req.endpoint = "admin.admin_post_edit" => Strip(req.target, {" "}) # <<>>
        /\ \E i \in others : posts[i].slug = AskedSlug(req))
       => /\ posts' = posts
          /\ req.result = "form_error"
          /\ req.flash = "Slug already exists"

\* C18: after any sequence of admin post creations, edits and deletions no
\* two posts share a slug; a creation whose given or generated slug is an
\* existing post's slug, and an edit to another post's slug, are rejected
\* with the duplicate-slug error and leave the posts unchanged.
C18_SlugsStayUnique == [](NoSharedSlug(posts)) /\ [][DuplicateSlugIsRejected]_vars

\* "My Post" has the slug my-post, and the creation of "My Post!!" without
\* a slug was rejected as a duplicate
C18_Witness ==
    /\ \E i \in DOMAIN posts : posts[i].title = MyPost /\ posts[i].slug = MyPostSlug
    /\ last.endpoint = "admin.admin_post_new"
    /\ last.given = MyPostBang
    /\ last.target = <<>>
    /\ last.ran
    /\ last.result = "form_error"
    /\ last.flash = "Slug already exists"

StayUnique ==
    /\ NoSharedSlug(posts)
    /\ \A i \in DOMAIN categories, j \in DOMAIN categories :
          i # j => categories[i].name # categories[j].name
    /\ \A i \in DOMAIN users, j \in DOMAIN users : i # j => users[i].email # users[j].email

\* C19: however the steps of two requests served at the same time are
\* interleaved, each request ends in success or in a validation error
\* shown to the user, never in an unhandled exception, and slugs, category
\* names and user emails stay unique.
C19_ConcurrentRequestsEndCleanly ==
    /\ \A r \in Workers : inflight[r].result \in {"none", "login", "redirect", "form_error"}
    /\ StayUnique

\* C20: when the outbound call of the contact submission, of the admin
\* reply or of the home page raises, the request still completes with a
\* normal response.
C20_OutboundFailureIsNotFatal ==
    (/\ last.endpoint \in {"public.contact", "admin.admin_message_reply", "public.home"}
     /\ last.outbound = "raised")
        => last.result \in {"page", "redirect", "form_error"}

\* every place's category_id is null or the id of a category
CategoryRefsExist ==
    \A i \in DOMAIN places :
        places[i].category_id = NoCategory \/ places[i].category_id \in DOMAIN categories

\* after a request every place's category_id is null or an existing id, and
\* the admin's delete of an existing category removes it, nulls the
\* category_id of the places that had it and removes no place
CategoryDeleteNulls ==
    LET req == last'
    IN /\ CategoryRefsExist'
       /\ (/\ req.endpoint = "admin.admin_category_delete"
           /\ req.ran
           /\ req.post_id \in DOMAIN categories)
          => /\ req.result = "redirect"
             /\ req.post_id \notin DOMAIN categories'
             /\ DOMAIN places' = DOMAIN places
             /\ \A i \in DOMAIN places :
                   /\ places'[i].name = places[i].name
                   /\ places'[i].category_id =
                         IF places[i].category_id = req.post_id THEN NoCategory
                         ELSE places[i].category_id

\* C21: after any sequence of place and category operations every place's
\* category_id is null or the id of an existing category; deleting a
\* category succeeds, nulls the category_id of every place that referred to
\* it and deletes no place.
C21_CategoryRefsStayValid == [][CategoryDeleteNulls]_vars

\* a toggle that ran on a message changes its answered_at from null to a
\* value and from a value to null, the second of two toggles in a row puts
\* back what the first one found, and nothing else of any message changes
ToggleFlips ==
    LET req == last'
        id == req.post_id
    IN (/\ req.endpoint = "admin.admin_message_toggle_answered"
        /\ req.ran
        /\ req.result = "redirect")
       => /\ (messages[id].answered_at = Null) = (messages'[id].answered_at # Null)
          /\ (req.again /\ last.prior = Null) => messages'[id].answered_at = Null
          /\ DOMAIN messages' = DOMAIN messages
          /\ messages'[id].email = messages[id].email
          /\ \A m \in DOMAIN messages \ {id} : messages'[m] = messages[m]

\* C22: toggling answered flips a contact message between unanswered
\* (answered_at null) and answered (answered_at non-null): one toggle on an
\* unanswered message makes it non-null, two toggles in a row on an unanswered
\* message return it to null, and no other field and no other message changes.
C22_ToggleFlipsAnswered == [][ToggleFlips]_vars

\* the second of two toggles in a row has put the first message back to
\* unanswered, the other message being answered
C22_Witness ==
    /\ last.endpoint = "admin.admin_message_toggle_answered"
    /\ last.again
    /\ last.post_id = 1
    /\ last.prior # Null
    /\ messages[1].answered_at = Null
    /\ messages[2].answered_at # Null

\* the endpoints that end by clearing the session
SessionClearingEndpoints ==
    {"auth.login", "auth.register", "auth.logout", "admin.admin_logout"}

\* after a request a session in preview is an admin's, the flag is new only
\* after the start-preview endpoint ran for an admin, and a log-in, a
\* registration and a log-out that went through leave no flag
PreviewFlagIsAdmins ==
    LET req == last'
    IN /\ session'.anonymous_preview =>
            /\ session'.user_id \in DOMAIN users'
            /\ users'[session'.user_id].role = "admin"
       /\ (session'.anonymous_preview /\ ~session.anonymous_preview) =>
            /\ req.endpoint = "admin.admin_preview_anonymous"
            /\ req.ran
            /\ req.admin
       /\ (req.endpoint \in SessionClearingEndpoints /\ req.ran /\ req.result = "redirect")
            => ~session'.anonymous_preview
       /\ session'.user_id # session.user_id => ~session'.anonymous_preview

\* C25: in every state reached through HTTP requests a session whose
\* anonymous_preview flag is set holds the user id of a role=admin user; the
\* flag is set only by the admin-only start-preview endpoint, and login,
\* registration and both logouts clear the whole session, flag included.
C25_PreviewOnlyInAdminSessions == [][PreviewFlagIsAdmins]_vars

\* an admin has started the preview
C25_Witness ==
    /\ last.endpoint = "admin.admin_preview_anonymous"
    /\ last.ran
    /\ session.anonymous_preview
    /\ session.user_id \in DOMAIN users
    /\ users[session.user_id].role = "admin"

\* the session holds the id of a role=admin user
HoldsAdminId(sess) ==
    sess.user_id \in DOMAIN users /\ users[sess.user_id].role = "admin"

\* a request made by an admin in preview: every admin endpoint is open to
\* it, the admin request that was made ran its view, and the stop of the
\* preview removed the flag and nothing else from the session
PreviewAdminKeepsAdminArea ==
    LET req == last'
    IN (session.anonymous_preview /\ HoldsAdminId(session)) =>
          /\ \A e \in AdminEndpoints : AdminDispatch(users, session, e) = "view"
          /\ req.endpoint \in AdminEndpoints => req.ran
          /\ req.endpoint = "admin.admin_preview_stop" =>
                /\ ~session'.anonymous_preview
                /\ session'.user_id = session.user_id

\* C26: the admin-area gate ignores the anonymous_preview flag: from every
\* state in which an admin's session is in preview, a POST to
\* /admin/preview/stop is accepted, removes the flag and leaves the user id
\* unchanged, and while in preview the admin can run every admin handler.
C26_PreviewAdminCanAlwaysLeave == [][PreviewAdminKeepsAdminArea]_vars

\* an admin who was in preview has stopped it and is still logged in
C26_Witness ==
    /\ last.endpoint = "admin.admin_preview_stop"
    /\ last.ran
    /\ last.preview
    /\ ~session.anonymous_preview
    /\ HoldsAdminId(session)

\* the ids of the role=admin users
AdminIds(us) == {i \in DOMAIN us : us[i].role = "admin"}

\* a request keeps every user row and its role, adds at most member rows,
\* by registration, and so keeps the set of admins
RequestsKeepRoles ==
    LET req == last'
    IN /\ \A i \in DOMAIN users :
             i \in DOMAIN users' /\ users'[i].role = users[i].role
       /\ \A i \in DOMAIN users' \ DOMAIN users :
             users'[i].role = "member" /\ req.endpoint = "auth.register"
       /\ AdminIds(users') = AdminIds(users)

\* C27: no sequence of HTTP requests raises privileges: self-registration
\* always creates a role=member user, no handler changes a user's role or
\* creates a role=admin user, so the set of admins changes only outside
\* HTTP: the startup migration and the create-admin and promote-admin
\* commands.
C27_NoRequestRaisesPrivileges == [][RequestsKeepRoles]_vars

\* a visitor has registered and is a member, next to the admin
C27_Witness ==
    /\ last.endpoint = "auth.register"
    /\ last.result = "redirect"
    /\ session.user_id \in DOMAIN users
    /\ users[session.user_id].role = "member"
    /\ AdminIds(users) # {}

\* a reply request for a stored message: without a mail host or a from
\* address, and with a blank body, nothing is sent; answered_at changes only
\* when the mail was sent, and then it is set and the mail went to the
\* address of the message; no other message changes
ReplyMarksOnlySent ==
    LET req == last'
        id == req.post_id
        configured == Truthy(settings, "smtp_host") /\ Truthy(settings, "smtp_from")
    IN (req.endpoint = "admin.admin_message_reply" /\ req.ran) =>
          /\ DOMAIN messages' = DOMAIN messages
          /\ \A m \in DOMAIN messages \ {id} : messages'[m] = messages[m]
          /\ id \in DOMAIN messages =>
                /\ (~configured \/ req.result = "form_error") => req.outbound = "none"
                /\ req.outbound # "sent" => messages'[id] = messages[id]
                /\ req.outbound = "sent" =>
                      /\ configured
                      /\ messages'[id].answered_at # Null
                      /\ messages'[id].email = messages[id].email
                      /\ req.recipient = messages[id].email

\* C28: the reply operation sets answered_at only when the reply mail was
\* actually sent: with SMTP not configured (no host or no from address) or
\* a blank body the request sends nothing and leaves answered_at unchanged;
\* when the send succeeds answered_at becomes non-null and the mail went to
\* the message's own email address.
C28_ReplyMarksOnlyWhenSent == [][ReplyMarksOnlySent]_vars

\* a reply to the unanswered first message was sent to its address
C28_Witness ==
    /\ last.endpoint = "admin.admin_message_reply"
    /\ last.outbound = "sent"
    /\ last.post_id = 1
    /\ last.recipient = "visitor@example.com"
    /\ messages[1].answered_at # Null
    /\ messages[2].answered_at = Null

\* a call of get_latest_video for a channel: it fetched exactly when the
\* cache had no entry for the channel or one at least 300 seconds old; when
\* it did not fetch it returned the entry's value and left the cache alone;
\* when it fetched, the entry is the result and the time of this call, a
\* failed fetch storing "no data"; other channels' entries are untouched
CallFetchesOnlyWhenStale ==
    LET req == last'
        id  == req.channel
        had == id \in DOMAIN _CACHE
        fetched == req.outbound # "none"
    IN (req.endpoint = "get_latest_video" /\ clock' = clock /\ id # Null) =>
          /\ fetched = (~had \/ clock - _CACHE[id].cached_at >= 300)
          /\ ~fetched => (req.result = _CACHE[id].value /\ _CACHE' = _CACHE)
          /\ fetched =>
                /\ id \in DOMAIN _CACHE'
                /\ _CACHE'[id] = [cached_at |-> clock, value |-> req.result]
                /\ req.outbound = "raised" => req.result = Null
                /\ \A k \in DOMAIN _CACHE \ {id} :
                      k \in DOMAIN _CACHE' /\ _CACHE'[k] = _CACHE[k]

\* C29: get_latest_video fetches the feed for a channel only when the cache
\* holds no entry for the channel or the entry is at least 300 seconds old;
\* within 300 seconds of a fetch every call for the channel returns the
\* value that fetch stored (the "no data" of a failed fetch included)
\* without fetching, and every fetch replaces the entry with its result and
\* its own time.
C29_FetchOnlyWhenStale == [][CallFetchesOnlyWhenStale]_vars

\* 299 seconds after a failed fetch a call got its "no data" from the cache
C29_Witness ==
    /\ last.endpoint = "get_latest_video"
    /\ last.channel = "UCvlog"
    /\ last.outbound = "none"
    /\ last.result = Null
    /\ "UCvlog" \in DOMAIN _CACHE
    /\ clock - _CACHE["UCvlog"].cached_at = 299
    /\ "UCother" \in DOMAIN _CACHE

\* the flashes of a settings submission turned down for a file's extension
UploadRejections ==
    {"Hero image must be a JPG, PNG, WEBP, or GIF",
     "Logo must be a JPG, PNG, WEBP, GIF, or SVG"}

\* names an accepted upload is stored under
HeroNames == {"hero.jpg", "hero.jpeg", "hero.png", "hero.webp", "hero.gif"}

LogoNames == {"logo.jpg", "logo.jpeg", "logo.png", "logo.webp", "logo.gif", "logo.svg"}

\* a settings submission that ran: turned down for an extension it changes
\* no setting and no file; accepted, every new file has a fixed name with an
\* allowed extension, and the form's keys are stored with it
SettingsAllOrNothing ==
    LET req == last'
    IN (req.endpoint = "admin.admin_settings" /\ req.ran) =>
          /\ req.flash \in UploadRejections =>
                (settings' = settings /\ uploads' = uploads)
          /\ req.flash = "Settings saved" =>
                /\ (uploads' \ uploads) \subseteq (HeroNames \cup LogoNames)
                /\ \A k \in {"hero_image_filename", "logo_filename"} :
                      get_setting(settings', k) # get_setting(settings, k) =>
                          /\ settings'[k] \in uploads'
                          /\ settings'[k] \in
                                IF k = "logo_filename" THEN LogoNames ELSE HeroNames
                /\ SettingsFormKeys \subseteq DOMAIN settings'

\* C30: a settings submission rejected because an uploaded hero or logo
\* file has a disallowed extension changes nothing: no setting is persisted
\* and no file in the uploads directory is created or overwritten, also
\* when the hero upload of the same submission was valid and only the logo
\* was rejected; an accepted upload is stored as hero.<ext> or logo.<ext>
\* with an allowed <ext> and its filename setting is persisted with the
\* other settings.
C30_RejectedUploadChangesNothing == [][SettingsAllOrNothing]_vars

----------------------------------------------------------------------------
\* Properties of the schema upgrade

\* C24: after upgrade_sqlite_schema reaches the target version on any
\* starting store, the store has a table for every entity the request
\* handlers read or write: place, category, admin_user, site_setting,
\* blog_post, contact_message, user, access_rule and page_view.
C24_UpgradedStoreHasEveryTable ==
    (pc = "done" /\ _get_user_version(disk) = latest_version)
        => ModelTables \subseteq disk.tables

\* the step that has just completed is the v4->v5 step
Step4Completes == applied' = Append(applied, 4)

\* every legacy admin has a user row with role admin and every fixed feature
\* a rule that allows anonymous access
AdminsAndRulesSeeded ==
    Step4Completes =>
        /\ \A e \in DOMAIN AdminRows(db) :
              e \in DOMAIN db'.user /\ db'.user[e].role = "admin"
        /\ \A f \in ACCESS_FEATURES :
              f \in DOMAIN db'.access_rule /\ db'.access_rule[f]

\* the same, a user row and a rule that were there before the step being
\* left as they were
AdminsAndRulesSeededOrKept ==
    Step4Completes =>
        /\ \A e \in DOMAIN AdminRows(db) :
              /\ e \in DOMAIN db'.user
              /\ IF e \in DOMAIN db.user
                 THEN db'.user[e] = db.user[e]
                 ELSE db'.user[e].role = "admin"
        /\ \A f \in ACCESS_FEATURES :
              /\ f \in DOMAIN db'.access_rule
              /\ IF f \in DOMAIN db.access_rule
                 THEN db'.access_rule[f] = db.access_rule[f]
                 ELSE db'.access_rule[f]

PlaceFields == {"website_url", "youtube_url", "tiktok_url",
                "venue_website_url", "venue_youtube_url", "venue_tiktok_url"}

\* everything store a holds is still held, unchanged, by store b
Preserves(a, b) ==
    /\ a.tables \subseteq b.tables
    /\ a.place_cols \subseteq b.place_cols
    /\ DOMAIN a.place \subseteq DOMAIN b.place
    /\ \A i \in DOMAIN a.place : \A f \in PlaceFields :
           a.place[i][f] # Null => b.place[i][f] = a.place[i][f]
    /\ DOMAIN a.site_setting \subseteq DOMAIN b.site_setting
    /\ \A k \in DOMAIN a.site_setting : b.site_setting[k] = a.site_setting[k]
    /\ DOMAIN a.admin_user \subseteq DOMAIN b.admin_user
    /\ \A u \in DOMAIN a.admin_user : b.admin_user[u] = a.admin_user[u]
    /\ DOMAIN a.user \subseteq DOMAIN b.user
    /\ \A e \in DOMAIN a.user : b.user[e] = a.user[e]
    /\ DOMAIN a.access_rule \subseteq DOMAIN b.access_rule
    /\ \A f \in DOMAIN a.access_rule : b.access_rule[f] = a.access_rule[f]

\* the steps start, start+1, ..., upto-1 as a sequence
StepsFromTo(start, upto) == [i \in 1..(upto - start) |-> start + i - 1]

StoredVersionGrows == pc \in {"loop", "mid"} => db.user_version <= db'.user_version

C5_CrashKeepsCompletedSteps ==
    (pc = "crashed" /\ crashedIn = "mid") => disk.user_version = version

\* C6: a run on a store whose stored version is above the target version
\* does not return normally.
C6_VersionAboveTargetIsFatal ==
    ~(pc = "done" /\ before.user_version > latest_version)

\* C7: the version the loop starts from is the stored version when that is
\* not 0; when it is 0 it is 2 if site_setting exists, else 1 if place,
\* category and admin_user all exist, else 0; and that value is the stored
\* version before the first step completes.
C7_InferenceOnlyFromZero ==
    runs >= 1 =>
        /\ startVersion =
             IF before.user_version # 0 THEN before.user_version
             ELSE IF "site_setting" \in before.tables THEN 2
             ELSE IF {"place", "category", "admin_user"} \subseteq before.tables THEN 1
             ELSE 0
        /\ (pc \in {"loop", "mid"} /\ applied = <<>> =>
              db.user_version = startVersion /\ disk.user_version = startVersion)

C7_Witness ==
    /\ pc = "loop"
    /\ applied = <<>>
    /\ before.user_version = 0
    /\ LegacyTables \subseteq before.tables
    /\ "site_setting" \in before.tables
    /\ startVersion = 2
    /\ disk.user_version = 2

\* C8: every table, column, row and non-null column value the store held when
\* a run started is still there, unchanged, at every point of the run, both
\* in the connection's view and in the committed store.
C8_StepsOnlyAdd ==
    runs >= 1 => Preserves(before, db) /\ Preserves(before, disk)

C8_Witness ==
    /\ pc = "done"
    /\ startVersion <= 2
    /\ applied = StepsFromTo(startVersion, latest_version)
    /\ 1 \in DOMAIN before.place
    /\ before.place[1].venue_website_url = "w-new"
    /\ before.place[1].website_url = "w-old"
    /\ before.place[1].venue_tiktok_url = Null
    /\ disk.place[1].venue_tiktok_url = "t-old"
    /\ "root" \in DOMAIN before.admin_user
    /\ "root" \in DOMAIN before.user
    /\ before.user["root"].role = "member"
    /\ before.access_rule = ("blog" :> FALSE)
    /\ "contact_email" \in DOMAIN before.site_setting
    /\ before.site_setting["contact_email"] # Null

====
